---- MODULE Spec2Model ----
(***************************************************************************)
(* Transaction reconciliation API: the record store (sessions and          *)
(* transactions), the write endpoints that change it and the three         *)
(* analysis operations of TransactionService (reconcile_transactions,      *)
(* find_amount_discrepancies, get_reconciliation_summary).                 *)
(*                                                                         *)
(* Representation choices:                                                 *)
(*  - a transaction identifier is a number 1..NumIds standing for a        *)
(*    fixed-width string ("TXN-001", "TXN-002", ...), so that the          *)
(*    lexicographic order of sorted() is the numeric order;                *)
(*  - an amount is an integer number of amount units, Cent units to the    *)
(*    cent (one unit = 0.002), so that amounts with more than two decimal  *)
(*    places exist and round(x, 2) never meets a half-way case;            *)
(*  - match_rate is an integer number of hundredths of a percent           *)
(*    (5000 = 50.00);                                                      *)
(*  - the transactions table is a sequence in the row order of the store:  *)
(*    a query without ORDER BY returns the matching rows in that order;    *)
(*  - hashOrder is the iteration order that the process's string hash      *)
(*    seed gives to a set of identifiers; it is chosen when the process    *)
(*    starts and is any permutation of the identifiers; the database       *)
(*    outlives the process, so a restart draws a new order over the same   *)
(*    stored records;                                                      *)
(*  - response is the response to the last request;                        *)
(*  - inflight holds, for every handler of the API that runs statement by  *)
(*    statement, the request it is handling and what it has read;          *)
(*  - ALLOW_WRITE_TOOLS, audit_log and tool_call are the MCP server: its   *)
(*    governance flag, its audit file and its latest tool invocation;      *)
(*  - message and inferred are the assistant's intent router: the text it  *)
(*    was given, as a sequence of characters, and what it answered.        *)
(***************************************************************************)
EXTENDS Integers, Sequences, FiniteSets, TLC

\* ---- bounds ----
NumIds == 2
MaxAmount == 2
MaxSessions == 2
MaxTxns == 2
MaxBulk == 2
\* rows per system of the analysed session in the stores that the analysis
\* specification draws
MaxPerSystem == 2
\* requests that are being handled at the same time
MaxInflight == 1

\* tool invocations of the MCP server in one behaviour
MaxCalls == 2

\* words in a message to the assistant
MaxWords == 3

\* units of amount per cent: round(x, 2) rounds to a multiple of Cent
Cent == 5

Ids == 1..NumIds
Amounts == 0..MaxAmount
SessionIds == 1..MaxSessions
\* ids a request may name: the ones that can exist and one that never does
RequestIds == 1..(MaxSessions + 1)
Names == {"n1", "n2"}

SYSTEM_A == "system_a"
SYSTEM_B == "system_b"
SystemType == {SYSTEM_A, SYSTEM_B}

\* schemas.TransactionCreate (metadata is opaque and carried nowhere)
TransactionCreate == [transaction_id : Ids, system : SystemType, amount : Amounts]

VARIABLES sessions, nextSessionId, transactions, hashOrder, response,
          inflight, ALLOW_WRITE_TOOLS, audit_log, tool_call, message, inferred

vars == <<sessions, nextSessionId, transactions, hashOrder, response,
          inflight, ALLOW_WRITE_TOOLS, audit_log, tool_call, message, inferred>>

\* the state of the MCP tool server and of the assistant's router
mcpVars == <<ALLOW_WRITE_TOOLS, audit_log, tool_call>>
assistantVars == <<message, inferred>>

\* the requests being handled at once and a handler that holds no request
Clients == 1..MaxInflight
Idle == [op |-> "idle"]

\* no tool has been called: config.ALLOW_WRITE_TOOLS as shipped, an empty
\* audit log file
NoToolCalls ==
    /\ ALLOW_WRITE_TOOLS = TRUE
    /\ audit_log = <<>>
    /\ tool_call = [tool |-> "none"]

\* no message has been routed
NoMessage ==
    /\ message = <<>>
    /\ inferred = [action |-> "none"]

\* every handler is idle and the clients of the API have done nothing
ApiOnly ==
    /\ inflight = [c \in Clients |-> Idle]
    /\ NoToolCalls
    /\ NoMessage

\* ---- helpers ----
Abs(x) == IF x < 0 THEN -x ELSE x

Range(s) == {s[i] : i \in DOMAIN s}

Permutations_(S) == {p \in [1..Cardinality(S) -> S] : Range(p) = S}

\* Python round(x, 2) on an amount: the nearest multiple of Cent
Round2(x) == LET r == x % Cent IN IF 2 * r < Cent THEN x - r ELSE x + (Cent - r)

\* round(.., 1) in place of round(.., 2)
RoundRate_1(m, u) == 10 * ((1000 * m + (u \div 2)) \div u)

\* round((m / u) * 100, 2) in hundredths of a percent, half-way cases to even
RoundRate(m, u) ==
    LET n == 10000 * m
        q == n \div u
        r == n % u
    IN  IF 2 * r < u THEN q
        ELSE IF 2 * r > u THEN q + 1
        ELSE IF q % 2 = 0 THEN q ELSE q + 1

\* iteration over a Python set of identifiers: the process's hash order
SetIter(S) == SelectSeq(hashOrder, LAMBDA k : k \in S)

\* sorted(list_of_identifiers): insertion into an ascending list
RECURSIVE InsertAsc(_, _)
InsertAsc(k, s) ==
    IF s = <<>> THEN <<k>>
    ELSE IF k < Head(s) THEN <<k>> \o s
    ELSE <<Head(s)>> \o InsertAsc(k, Tail(s))

\* list(ids) without sorted(): the set's iteration order
SortedIds_unsorted(s) == s

RECURSIVE SortedIds(_)
SortedIds(s) == IF s = <<>> THEN <<>> ELSE InsertAsc(Head(s), SortedIds(Tail(s)))

\* a sum over one amount per identifier in place of one per row
RECURSIVE SumAmounts_distinct(_)
SumAmounts_distinct(rows) ==
    IF rows = <<>> THEN 0
    ELSE (IF \E j \in 2..Len(rows) : rows[j].transaction_id = Head(rows).transaction_id
          THEN 0 ELSE Head(rows).amount) + SumAmounts_distinct(Tail(rows))

\* func.sum(Transaction.amount) over the selected rows, "or 0.0" when none
RECURSIVE SumAmounts(_)
SumAmounts(rows) == IF rows = <<>> THEN 0 ELSE Head(rows).amount + SumAmounts(Tail(rows))

\* ---- the record store ----
SessionExists(sid) == \E s \in sessions : s.id = sid

SessionName(sid) == (CHOOSE s \in sessions : s.id = sid).session_name

\* the query without its session filter
SystemRows_anySession(txns, sid, sys) == SelectSeq(txns, LAMBDA t : t.system = sys)

\* db.query(Transaction).filter(session_id == sid, system == sys).all()
SystemRows(txns, sid, sys) ==
    SelectSeq(txns, LAMBDA t : t.session_id = sid /\ t.system = sys)

\* db.query(Transaction).filter(session_id == sid).all()
SessionRows(txns, sid) == SelectSeq(txns, LAMBDA t : t.session_id = sid)

\* set([t.transaction_id for t in rows])
IdSet(rows) == {rows[i].transaction_id : i \in DOMAIN rows}

NewRow(sid, t) ==
    [transaction_id |-> t.transaction_id, session_id |-> sid,
     system |-> t.system, amount |-> t.amount]

RECURSIVE NewRows(_, _)
NewRows(sid, ts) ==
    IF ts = <<>> THEN <<>> ELSE <<NewRow(sid, Head(ts))>> \o NewRows(sid, Tail(ts))

NotFound(op, sid) == [op |-> op, session_id |-> sid, status |-> 404, body |-> <<>>]

\* the two HTTP 400 answers of POST /sessions
SessionRefused(detail) ==
    [op |-> "create_session", session_id |-> 0, status |-> 400,
     body |-> [detail |-> detail]]

Init ==
    /\ sessions = {}
    /\ nextSessionId = 1
    /\ transactions = <<>>
    /\ hashOrder \in Permutations_(Ids)
    /\ response = [op |-> "none", session_id |-> 0, status |-> 0, body |-> <<>>]
    /\ ApiOnly

\* A new server process over the same database: main.py runs again, the
\* tables and their rows are kept, and the string hash seed is drawn afresh.
Restart ==
    /\ hashOrder' \in Permutations_(Range(hashOrder))
    /\ UNCHANGED <<sessions, nextSessionId, transactions, response, inflight, mcpVars, assistantVars>>

\* POST /sessions (endpoints.create_reconciliation_session): 400 when the
\* name is taken, else ReconciliationSessionService.create_session
CreateSession(name) ==
    /\ IF \E s \in sessions : s.session_name = name
       THEN /\ response' = SessionRefused("already exists")
            /\ UNCHANGED <<sessions, nextSessionId>>
       ELSE /\ nextSessionId <= MaxSessions
            /\ sessions' = sessions \cup {[id |-> nextSessionId, session_name |-> name]}
            /\ nextSessionId' = nextSessionId + 1
            /\ response' = [op |-> "create_session", session_id |-> nextSessionId,
                            status |-> 201, body |-> <<>>]
    /\ UNCHANGED <<transactions, hashOrder, inflight, mcpVars, assistantVars>>

\* the session deleted without the cascade to its transactions
DeleteSession_noCascade(sid) ==
    /\ IF SessionExists(sid)
       THEN /\ sessions' = {s \in sessions : s.id # sid}
            /\ response' = [op |-> "delete_session", session_id |-> sid,
                            status |-> 200, body |-> <<>>]
            /\ UNCHANGED transactions
       ELSE /\ response' = NotFound("delete_session", sid)
            /\ UNCHANGED <<sessions, transactions>>
    /\ UNCHANGED <<nextSessionId, hashOrder, inflight, mcpVars, assistantVars>>

\* DELETE /sessions/{id}: the session and, by the relationship's cascade,
\* all of its transactions
DeleteSession(sid) ==
    /\ IF SessionExists(sid)
       THEN /\ sessions' = {s \in sessions : s.id # sid}
            /\ transactions' = SelectSeq(transactions, LAMBDA t : t.session_id # sid)
            /\ response' = [op |-> "delete_session", session_id |-> sid,
                            status |-> 200, body |-> <<>>]
       ELSE /\ response' = NotFound("delete_session", sid)
            /\ UNCHANGED <<sessions, transactions>>
    /\ UNCHANGED <<nextSessionId, hashOrder, inflight, mcpVars, assistantVars>>

\* POST /transactions: 404 for an unknown session, else one new row
CreateTransaction(sid, t) ==
    /\ IF SessionExists(sid)
       THEN /\ Len(transactions) < MaxTxns
            /\ transactions' = Append(transactions, NewRow(sid, t))
            /\ response' = [op |-> "create_transaction", session_id |-> sid,
                            status |-> 201, body |-> <<>>]
       ELSE /\ response' = NotFound("create_transaction", sid)
            /\ UNCHANGED transactions
    /\ UNCHANGED <<sessions, nextSessionId, hashOrder, inflight, mcpVars, assistantVars>>

\* POST /transactions/bulk: 404 for an unknown session, else the rows of the
\* request in request order
BulkUpload(sid, ts) ==
    /\ IF SessionExists(sid)
       THEN /\ Len(transactions) + Len(ts) <= MaxTxns
            /\ transactions' = transactions \o NewRows(sid, ts)
            /\ response' = [op |-> "bulk_upload", session_id |-> sid,
                            status |-> 201, body |-> [count |-> Len(ts)]]
       ELSE /\ response' = NotFound("bulk_upload", sid)
            /\ UNCHANGED transactions
    /\ UNCHANGED <<sessions, nextSessionId, hashOrder, inflight, mcpVars, assistantVars>>

\* the delete without its session filter
ClearTransactions_all(sid) ==
    /\ IF SessionExists(sid)
       THEN /\ transactions' = <<>>
            /\ response' = [op |-> "clear_transactions", session_id |-> sid,
                            status |-> 200,
                            body |-> [deleted_count |-> Len(transactions)]]
       ELSE /\ response' = NotFound("clear_transactions", sid)
            /\ UNCHANGED transactions
    /\ UNCHANGED <<sessions, nextSessionId, hashOrder, inflight, mcpVars, assistantVars>>

\* DELETE /transactions/session/{id}: clear_all_transactions
ClearTransactions(sid) ==
    /\ IF SessionExists(sid)
       THEN /\ transactions' = SelectSeq(transactions, LAMBDA t : t.session_id # sid)
            /\ response' = [op |-> "clear_transactions", session_id |-> sid,
                            status |-> 200,
                            body |-> [deleted_count |-> Len(SessionRows(transactions, sid))]]
       ELSE /\ response' = NotFound("clear_transactions", sid)
            /\ UNCHANGED transactions
    /\ UNCHANGED <<sessions, nextSessionId, hashOrder, inflight, mcpVars, assistantVars>>

\* ---- the read endpoints ----
\* GET /health
health_check ==
    /\ response' = [op |-> "health_check", session_id |-> 0, status |-> 200,
                    body |-> [status |-> "healthy"]]
    /\ UNCHANGED <<sessions, nextSessionId, transactions, hashOrder, inflight, mcpVars, assistantVars>>

\* GET /sessions
get_all_sessions ==
    /\ response' = [op |-> "get_all_sessions", session_id |-> 0, status |-> 200,
                    body |-> sessions]
    /\ UNCHANGED <<sessions, nextSessionId, transactions, hashOrder, inflight, mcpVars, assistantVars>>

\* GET /sessions/{id}
GetSession(sid) ==
    /\ response' = IF SessionExists(sid)
                   THEN [op |-> "get_session", session_id |-> sid, status |-> 200,
                         body |-> [id |-> sid, session_name |-> SessionName(sid)]]
                   ELSE NotFound("get_session", sid)
    /\ UNCHANGED <<sessions, nextSessionId, transactions, hashOrder, inflight, mcpVars, assistantVars>>

\* GET /transactions/session/{id}: get_transactions_by_session
GetTransactionsBySession(sid) ==
    /\ response' = IF SessionExists(sid)
                   THEN [op |-> "get_transactions_by_session", session_id |-> sid,
                         status |-> 200, body |-> SessionRows(transactions, sid)]
                   ELSE NotFound("get_transactions_by_session", sid)
    /\ UNCHANGED <<sessions, nextSessionId, transactions, hashOrder, inflight, mcpVars, assistantVars>>

\* the listing without its system filter
GetTransactionsBySystem_all(sid, sys) ==
    /\ response' = IF SessionExists(sid)
                   THEN [op |-> "get_transactions_by_system", session_id |-> sid,
                         status |-> 200,
                         body |-> [system |-> sys,
                                   transactions |-> SessionRows(transactions, sid)]]
                   ELSE NotFound("get_transactions_by_system", sid)
    /\ UNCHANGED <<sessions, nextSessionId, transactions, hashOrder, inflight, mcpVars, assistantVars>>

\* GET /transactions/session/{id}/system/{system}: get_transactions_by_system
GetTransactionsBySystem(sid, sys) ==
    /\ response' = IF SessionExists(sid)
                   THEN [op |-> "get_transactions_by_system", session_id |-> sid,
                         status |-> 200,
                         body |-> [system |-> sys,
                                   transactions |-> SystemRows(transactions, sid, sys)]]
                   ELSE NotFound("get_transactions_by_system", sid)
    /\ UNCHANGED <<sessions, nextSessionId, transactions, hashOrder, inflight, mcpVars, assistantVars>>

\* ---- TransactionService.reconcile_transactions ----
\* len(system_x_ids): the number of distinct identifiers of the rows
CountDistinct_raw(rows) == Len(rows)

CountDistinct(rows) == Cardinality(IdSet(rows))

Matched_union(system_a_ids, system_b_ids) == system_a_ids \cup system_b_ids

Matched(system_a_ids, system_b_ids) == system_a_ids \cap system_b_ids

OnlyInA_all(system_a_ids, system_b_ids) == system_a_ids

OnlyInA(system_a_ids, system_b_ids) == system_a_ids \ system_b_ids

OnlyInB_copied(system_a_ids, system_b_ids) == system_a_ids \ system_b_ids

OnlyInB(system_a_ids, system_b_ids) == system_b_ids \ system_a_ids

TotalUnique_a(system_a_ids, system_b_ids) == Cardinality(system_a_ids)

TotalUnique(system_a_ids, system_b_ids) == Cardinality(system_a_ids \cup system_b_ids)

\* 100.0 in place of 0.0 when there is no identifier at all
MatchRate_vacuous(matched_count, total_unique) ==
    IF total_unique > 0 THEN RoundRate(matched_count, total_unique) ELSE 10000

\* the guarded division and the round(match_rate, 2) of the result
MatchRate(matched_count, total_unique) ==
    IF total_unique > 0 THEN RoundRate(matched_count, total_unique) ELSE 0

reconcile_transactions(txns, sid) ==
    LET system_a_transactions == SystemRows(txns, sid, SYSTEM_A)
        system_b_transactions == SystemRows(txns, sid, SYSTEM_B)
        system_a_ids == IdSet(system_a_transactions)
        system_b_ids == IdSet(system_b_transactions)
        matched      == Matched(system_a_ids, system_b_ids)
        only_in_a    == OnlyInA(system_a_ids, system_b_ids)
        only_in_b    == OnlyInB(system_a_ids, system_b_ids)
        total_unique == TotalUnique(system_a_ids, system_b_ids)
    IN  [total_system_a         |-> CountDistinct(system_a_transactions),
         total_system_b         |-> CountDistinct(system_b_transactions),
         matched_count          |-> Cardinality(matched),
         matched_transactions   |-> SortedIds(SetIter(matched)),
         only_in_system_a_count |-> Cardinality(only_in_a),
         only_in_system_a       |-> SortedIds(SetIter(only_in_a)),
         only_in_system_b_count |-> Cardinality(only_in_b),
         only_in_system_b       |-> SortedIds(SetIter(only_in_b)),
         match_rate             |-> MatchRate(Cardinality(matched), total_unique)]

\* an analysis that removes the rows it has reconciled
Reconcile_consuming(sid) ==
    /\ response' = IF SessionExists(sid)
                   THEN [op |-> "reconcile", session_id |-> sid, status |-> 200,
                         body |-> reconcile_transactions(transactions, sid)]
                   ELSE NotFound("reconcile", sid)
    /\ transactions' = SelectSeq(transactions, LAMBDA t : t.session_id # sid)
    /\ UNCHANGED <<sessions, nextSessionId, hashOrder, inflight, mcpVars, assistantVars>>

\* GET /reconciliation/analyse/{id}
Reconcile(sid) ==
    /\ response' = IF SessionExists(sid)
                   THEN [op |-> "reconcile", session_id |-> sid, status |-> 200,
                         body |-> reconcile_transactions(transactions, sid)]
                   ELSE NotFound("reconcile", sid)
    /\ UNCHANGED <<sessions, nextSessionId, transactions, hashOrder, inflight, mcpVars, assistantVars>>

\* ---- TransactionService.find_amount_discrepancies ----
\* the first row of an identifier wins
RECURSIVE AmountsDict_first(_, _)
AmountsDict_first(rows, d) ==
    IF rows = <<>> THEN d
    ELSE LET t == Head(rows)
         IN  AmountsDict_first(Tail(rows),
                 [k \in DOMAIN d \cup {t.transaction_id} |->
                     IF k \in DOMAIN d THEN d[k] ELSE t.amount])

\* {t.transaction_id: t.amount for t in rows}: a later row with the same
\* identifier replaces the amount stored for it
RECURSIVE AmountsDict(_, _)
AmountsDict(rows, d) ==
    IF rows = <<>> THEN d
    ELSE LET t == Head(rows)
         IN  AmountsDict(Tail(rows),
                 [k \in DOMAIN d \cup {t.transaction_id} |->
                     IF k = t.transaction_id THEN t.amount ELSE d[k]])

AmountDiscrepancyDetail(trans_id, amount_a, amount_b) ==
    [transaction_id  |-> trans_id,
     system_a_amount |-> amount_a,
     system_b_amount |-> amount_b,
     difference      |-> Abs(amount_a - amount_b)]

\* amounts compared with a tolerance of one amount unit
RECURSIVE CollectDiscrepancies_tolerant(_, _, _)
CollectDiscrepancies_tolerant(ids, a, b) ==
    IF ids = <<>> THEN <<>>
    ELSE LET trans_id == Head(ids)
             rest     == CollectDiscrepancies_tolerant(Tail(ids), a, b)
         IN  IF Abs(a[trans_id] - b[trans_id]) > 1
             THEN <<AmountDiscrepancyDetail(trans_id, a[trans_id], b[trans_id])>> \o rest
             ELSE rest

\* the for loop over common_ids: the list of discrepancies in iteration order
RECURSIVE CollectDiscrepancies(_, _, _)
CollectDiscrepancies(ids, a, b) ==
    IF ids = <<>> THEN <<>>
    ELSE LET trans_id == Head(ids)
             rest     == CollectDiscrepancies(Tail(ids), a, b)
         IN  IF a[trans_id] # b[trans_id]
             THEN <<AmountDiscrepancyDetail(trans_id, a[trans_id], b[trans_id])>> \o rest
             ELSE rest

RECURSIVE SumDifferences(_)
SumDifferences(ds) == IF ds = <<>> THEN 0 ELSE Head(ds).difference + SumDifferences(Tail(ds))

\* reverse=True left out: ascending by difference
RECURSIVE InsertByDifference_asc(_, _)
InsertByDifference_asc(d, s) ==
    IF s = <<>> THEN <<d>>
    ELSE IF d.difference <= Head(s).difference THEN <<d>> \o s
    ELSE <<Head(s)>> \o InsertByDifference_asc(d, Tail(s))

\* sorted(discrepancies, key=lambda x: x.difference, reverse=True): a stable
\* sort, so records of equal difference keep their relative order
RECURSIVE InsertByDifference(_, _)
InsertByDifference(d, s) ==
    IF s = <<>> THEN <<d>>
    ELSE IF d.difference >= Head(s).difference THEN <<d>> \o s
    ELSE <<Head(s)>> \o InsertByDifference(d, Tail(s))

RECURSIVE SortedByDifference(_)
SortedByDifference(ds) ==
    IF ds = <<>> THEN <<>>
    ELSE InsertByDifference(Head(ds), SortedByDifference(Tail(ds)))

find_amount_discrepancies(txns, sid) ==
    LET system_a_amounts == AmountsDict(SystemRows(txns, sid, SYSTEM_A), <<>>)
        system_b_amounts == AmountsDict(SystemRows(txns, sid, SYSTEM_B), <<>>)
        common_ids       == DOMAIN system_a_amounts \cap DOMAIN system_b_amounts
        discrepancies    == CollectDiscrepancies(SetIter(common_ids),
                                                 system_a_amounts, system_b_amounts)
        total_discrepancy == SumDifferences(discrepancies)
    IN  [transactions_with_discrepancies |-> Len(discrepancies),
         discrepancies                   |-> SortedByDifference(discrepancies),
         total_discrepancy_amount        |-> Round2(total_discrepancy)]

\* the analysis without the session lookup
Discrepancies_unchecked(sid) ==
    /\ response' = [op |-> "discrepancies", session_id |-> sid, status |-> 200,
                    body |-> find_amount_discrepancies(transactions, sid)]
    /\ UNCHANGED <<sessions, nextSessionId, transactions, hashOrder, inflight, mcpVars, assistantVars>>

\* GET /reconciliation/discrepancies/{id}
Discrepancies(sid) ==
    /\ response' = IF SessionExists(sid)
                   THEN [op |-> "discrepancies", session_id |-> sid, status |-> 200,
                         body |-> find_amount_discrepancies(transactions, sid)]
                   ELSE NotFound("discrepancies", sid)
    /\ UNCHANGED <<sessions, nextSessionId, transactions, hashOrder, inflight, mcpVars, assistantVars>>

\* ---- TransactionService.get_reconciliation_summary ----
RawCount_distinct(rows) == Cardinality(IdSet(rows))

\* db.query(func.count(Transaction.id)).filter(...).scalar(): one per row
RawCount(rows) == Len(rows)

UnmatchedCount_a(system_a_ids, system_b_ids) == Cardinality(system_a_ids \ system_b_ids)

\* len((system_a_ids - system_b_ids) | (system_b_ids - system_a_ids))
UnmatchedCount(system_a_ids, system_b_ids) ==
    Cardinality((system_a_ids \ system_b_ids) \cup (system_b_ids \ system_a_ids))

\* the result that get_reconciliation_summary builds from what its six
\* queries returned
ReconciliationSummary(system_a_count, system_b_count, system_a_ids, system_b_ids, system_a_total, system_b_total) ==
    LET matched        == Cardinality(system_a_ids \cap system_b_ids)
        discrepancy    == UnmatchedCount(system_a_ids, system_b_ids)
        total_unique   == TotalUnique(system_a_ids, system_b_ids)
        match_rate     == MatchRate(matched, total_unique)
    IN  [system_a_count        |-> system_a_count,
         system_b_count        |-> system_b_count,
         matched_count         |-> matched,
         discrepancy_count     |-> discrepancy,
         match_rate            |-> match_rate,
         system_a_total_amount |-> Round2(system_a_total),
         system_b_total_amount |-> Round2(system_b_total),
         amount_difference     |-> Round2(Abs(system_a_total - system_b_total))]

\* all six queries answered from the same table
get_reconciliation_summary(txns, sid) ==
    LET rows_a == SystemRows(txns, sid, SYSTEM_A)
        rows_b == SystemRows(txns, sid, SYSTEM_B)
    IN  ReconciliationSummary(RawCount(rows_a), RawCount(rows_b),
                              IdSet(rows_a), IdSet(rows_b),
                              SumAmounts(rows_a), SumAmounts(rows_b))

\* GET /reconciliation/summary/{id}
Summary(sid) ==
    /\ response' = IF SessionExists(sid)
                   THEN [op |-> "summary", session_id |-> sid, status |-> 200,
                         body |-> get_reconciliation_summary(transactions, sid)]
                   ELSE NotFound("summary", sid)
    /\ UNCHANGED <<sessions, nextSessionId, transactions, hashOrder, inflight, mcpVars, assistantVars>>

\* ---- handlers whose database statements interleave ----
\* Each request has its own database session (get_db) and the engine keeps
\* the default isolation level, so every statement of a handler sees what is
\* committed when that statement runs.  inflight[c] is the request that
\* handler c has begun and not yet answered, with what it has read so far.
Handling(c, r) == inflight' = [inflight EXCEPT ![c] = r]

Done(c) == inflight' = [inflight EXCEPT ![c] = Idle]

\* POST /sessions, first statement: get_session_by_name
CheckSessionName(c, name) ==
    /\ inflight[c] = Idle
    /\ IF \E s \in sessions : s.session_name = name
       THEN /\ response' = SessionRefused("already exists")
            /\ UNCHANGED inflight
       ELSE /\ Handling(c, [op |-> "create_session", session_name |-> name])
            /\ UNCHANGED response
    /\ UNCHANGED <<sessions, nextSessionId, transactions, hashOrder, mcpVars, assistantVars>>

\* the insert without the unique index on session_name
InsertSession_unconstrained(c) ==
    /\ inflight[c].op = "create_session"
    /\ nextSessionId <= MaxSessions
    /\ sessions' = sessions \cup {[id |-> nextSessionId,
                                   session_name |-> inflight[c].session_name]}
    /\ response' = [op |-> "create_session", session_id |-> nextSessionId,
                    status |-> 201, body |-> <<>>]
    /\ nextSessionId' = nextSessionId + 1
    /\ Done(c)
    /\ UNCHANGED <<transactions, hashOrder, mcpVars, assistantVars>>

\* POST /sessions, second statement: the INSERT and COMMIT of create_session.
\* The unique index on session_name (models.py) rejects a name that has been
\* committed since the check; the handler turns the error into HTTP 400.  The
\* id sequence has advanced either way.
InsertSession(c) ==
    /\ inflight[c].op = "create_session"
    /\ nextSessionId <= MaxSessions
    /\ IF \E s \in sessions : s.session_name = inflight[c].session_name
       THEN /\ response' = SessionRefused("Failed to create session")
            /\ UNCHANGED sessions
       ELSE /\ sessions' = sessions \cup {[id |-> nextSessionId,
                                           session_name |-> inflight[c].session_name]}
            /\ response' = [op |-> "create_session", session_id |-> nextSessionId,
                            status |-> 201, body |-> <<>>]
    /\ nextSessionId' = nextSessionId + 1
    /\ Done(c)
    /\ UNCHANGED <<transactions, hashOrder, mcpVars, assistantVars>>

\* POST /transactions and POST /transactions/bulk, first statement:
\* get_session_by_id.  ts holds the one row or the rows of the request.
CheckSession(c, op, sid, ts) ==
    /\ inflight[c] = Idle
    /\ IF SessionExists(sid)
       THEN /\ Handling(c, [op |-> op, session_id |-> sid, rows |-> ts])
            /\ UNCHANGED response
       ELSE /\ response' = NotFound(op, sid)
            /\ UNCHANGED inflight
    /\ UNCHANGED <<sessions, nextSessionId, transactions, hashOrder, mcpVars, assistantVars>>

\* the insert without the foreign key on session_id
InsertTransactions_noForeignKey(c) ==
    /\ inflight[c].op \in {"create_transaction", "bulk_upload"}
    /\ Len(transactions) + Len(inflight[c].rows) <= MaxTxns
    /\ transactions' = transactions \o NewRows(inflight[c].session_id, inflight[c].rows)
    /\ response' = [op |-> inflight[c].op, session_id |-> inflight[c].session_id,
                    status |-> 201,
                    body |-> IF inflight[c].op = "bulk_upload"
                             THEN [count |-> Len(inflight[c].rows)] ELSE <<>>]
    /\ Done(c)
    /\ UNCHANGED <<sessions, nextSessionId, hashOrder, mcpVars, assistantVars>>

\* POST /transactions and POST /transactions/bulk, second statement: the
\* INSERT and COMMIT.  The foreign key on session_id (models.py) rejects rows
\* of a session that has been deleted since the check; the handler turns the
\* error into HTTP 400 and no row of the request is stored.
InsertTransactions(c) ==
    /\ inflight[c].op \in {"create_transaction", "bulk_upload"}
    /\ IF SessionExists(inflight[c].session_id)
       THEN /\ Len(transactions) + Len(inflight[c].rows) <= MaxTxns
            /\ transactions' = transactions
                                 \o NewRows(inflight[c].session_id, inflight[c].rows)
            /\ response' = [op |-> inflight[c].op,
                            session_id |-> inflight[c].session_id, status |-> 201,
                            body |-> IF inflight[c].op = "bulk_upload"
                                     THEN [count |-> Len(inflight[c].rows)] ELSE <<>>]
       ELSE /\ response' = [op |-> inflight[c].op,
                            session_id |-> inflight[c].session_id, status |-> 400,
                            body |-> <<>>]
            /\ UNCHANGED transactions
    /\ Done(c)
    /\ UNCHANGED <<sessions, nextSessionId, hashOrder, mcpVars, assistantVars>>

\* DELETE /sessions/{id}, first statement: the session query of delete_session
FindSession(c, sid) ==
    /\ inflight[c] = Idle
    /\ IF SessionExists(sid)
       THEN /\ Handling(c, [op |-> "delete_session", session_id |-> sid,
                            loaded |-> FALSE, rows |-> <<>>])
            /\ UNCHANGED response
       ELSE /\ response' = NotFound("delete_session", sid)
            /\ UNCHANGED inflight
    /\ UNCHANGED <<sessions, nextSessionId, transactions, hashOrder, mcpVars, assistantVars>>

\* db.delete(session): the cascade loads session.transactions
LoadTransactions(c) ==
    /\ inflight[c].op = "delete_session"
    /\ ~inflight[c].loaded
    /\ Handling(c, [inflight[c] EXCEPT
                       !.loaded = TRUE,
                       !.rows = SessionRows(transactions, inflight[c].session_id)])
    /\ UNCHANGED <<sessions, nextSessionId, transactions, hashOrder, response,
                   mcpVars, assistantVars>>

\* db.commit(): DELETE of the loaded transactions, DELETE of the session,
\* COMMIT.  With the session and exactly the loaded rows in place both are
\* removed.  A row of the session that was not loaded makes the foreign key
\* reject the DELETE of the session: nothing is removed and the unhandled
\* error is answered 500.  When the session or the loaded rows are gone the
\* DELETEs match no row, which the ORM reports by a warning or by an error
\* depending on the driver's row counts: either answer, and what is left of
\* the session is removed only with the first.
CommitDelete(c) ==
    /\ inflight[c].op = "delete_session"
    /\ inflight[c].loaded
    /\ LET sid == inflight[c].session_id
           now == SessionRows(transactions, sid)
           ok  == [op |-> "delete_session", session_id |-> sid,
                   status |-> 200, body |-> <<>>]
           err == [op |-> "delete_session", session_id |-> sid,
                   status |-> 500, body |-> <<>>]
       IN  IF SessionExists(sid) /\ now = inflight[c].rows
           THEN /\ sessions' = {s \in sessions : s.id # sid}
                /\ transactions' = SelectSeq(transactions, LAMBDA t : t.session_id # sid)
                /\ response' = ok
           ELSE IF now # <<>>
           THEN /\ response' = err
                /\ UNCHANGED <<sessions, transactions>>
           ELSE /\ response' \in {ok, err}
                /\ sessions' = IF response'.status = 200
                               THEN {s \in sessions : s.id # sid} ELSE sessions
                /\ UNCHANGED transactions
    /\ Done(c)
    /\ UNCHANGED <<nextSessionId, hashOrder, mcpVars, assistantVars>>

\* GET /reconciliation/summary/{id}, first statement: the session query
FindSummarySession(c, sid) ==
    /\ inflight[c] = Idle
    /\ IF SessionExists(sid)
       THEN /\ Handling(c, [op |-> "summary", session_id |-> sid, pc |-> 1,
                            system_a_count |-> 0, system_b_count |-> 0,
                            system_a_ids |-> {}, system_b_ids |-> {},
                            system_a_total |-> 0])
            /\ UNCHANGED response
       ELSE /\ response' = NotFound("summary", sid)
            /\ UNCHANGED inflight
    /\ UNCHANGED <<sessions, nextSessionId, transactions, hashOrder, mcpVars, assistantVars>>

\* the next of the six queries of get_reconciliation_summary: the two
\* counts, the two identifier queries, the two sums; the result is built and
\* answered after the last
SummaryQuery(c) ==
    /\ inflight[c].op = "summary"
    /\ LET r == inflight[c]
           rows_a == SystemRows(transactions, r.session_id, SYSTEM_A)
           rows_b == SystemRows(transactions, r.session_id, SYSTEM_B)
       IN  IF r.pc < 6
           THEN /\ Handling(c,
                     IF r.pc = 1 THEN [r EXCEPT !.pc = 2, !.system_a_count = RawCount(rows_a)]
                     ELSE IF r.pc = 2 THEN [r EXCEPT !.pc = 3, !.system_b_count = RawCount(rows_b)]
                     ELSE IF r.pc = 3 THEN [r EXCEPT !.pc = 4, !.system_a_ids = IdSet(rows_a)]
                     ELSE IF r.pc = 4 THEN [r EXCEPT !.pc = 5, !.system_b_ids = IdSet(rows_b)]
                     ELSE [r EXCEPT !.pc = 6, !.system_a_total = SumAmounts(rows_a)])
                /\ UNCHANGED response
           ELSE /\ response' = [op |-> "summary", session_id |-> r.session_id,
                                status |-> 200,
                                body |-> ReconciliationSummary(
                                             r.system_a_count, r.system_b_count,
                                             r.system_a_ids, r.system_b_ids,
                                             r.system_a_total, SumAmounts(rows_b))]
                /\ Done(c)
    /\ UNCHANGED <<sessions, nextSessionId, transactions, hashOrder, mcpVars, assistantVars>>

BulkInputs == UNION {[1..n -> TransactionCreate] : n \in 0..MaxBulk}

Next ==
    \/ \E name \in Names : CreateSession(name)
    \/ \E sid \in RequestIds : DeleteSession(sid)
    \/ \E sid \in RequestIds, t \in TransactionCreate : CreateTransaction(sid, t)
    \/ \E sid \in RequestIds, ts \in BulkInputs : BulkUpload(sid, ts)
    \/ \E sid \in RequestIds : ClearTransactions(sid)
    \/ \E sid \in RequestIds : Reconcile(sid)
    \/ \E sid \in RequestIds : Discrepancies(sid)
    \/ \E sid \in RequestIds : Summary(sid)
    \/ \E sid \in RequestIds : GetSession(sid)
    \/ \E sid \in RequestIds : GetTransactionsBySession(sid)
    \/ \E sid \in RequestIds, sys \in SystemType : GetTransactionsBySystem(sid, sys)
    \/ Restart

Spec == Init /\ [][Next]_vars

\* ---- requests with the amounts at the two ends of the range ----
\* The session life cycle and the separation of sessions do not depend on the
\* amounts in between, so these requests carry the least or the greatest
\* amount only, and a bulk request is one that the table has room for.
StoreAmounts == {0, MaxAmount}

StoreInputs == [transaction_id : Ids, system : SystemType, amount : StoreAmounts]

StoreBulkInputs(n) ==
    UNION {[1..k -> StoreInputs] : k \in {j \in 0..MaxBulk : n + j <= MaxTxns}}

NextStore ==
    \/ \E name \in Names : CreateSession(name)
    \/ \E sid \in RequestIds : DeleteSession(sid)
    \/ \E sid \in RequestIds, t \in StoreInputs : CreateTransaction(sid, t)
    \/ \E sid \in RequestIds, ts \in StoreBulkInputs(Len(transactions)) :
          BulkUpload(sid, ts)
    \/ \E sid \in RequestIds : ClearTransactions(sid)
    \/ \E sid \in RequestIds : Reconcile(sid)
    \/ \E sid \in RequestIds : Discrepancies(sid)
    \/ \E sid \in RequestIds : Summary(sid)
    \/ Restart

SpecStore == Init /\ [][NextStore]_vars

\* the write endpoints with the read endpoints and one analysis
NextListing ==
    \/ \E name \in Names : CreateSession(name)
    \/ \E sid \in RequestIds : DeleteSession(sid)
    \/ \E sid \in RequestIds, t \in StoreInputs : CreateTransaction(sid, t)
    \/ \E sid \in RequestIds, ts \in StoreBulkInputs(Len(transactions)) :
          BulkUpload(sid, ts)
    \/ \E sid \in RequestIds : ClearTransactions(sid)
    \/ \E sid \in RequestIds : GetSession(sid)
    \/ \E sid \in RequestIds : GetTransactionsBySession(sid)
    \/ \E sid \in RequestIds, sys \in SystemType : GetTransactionsBySystem(sid, sys)
    \/ \E sid \in RequestIds : Reconcile(sid)

SpecListing == Init /\ [][NextListing]_vars

\* ---- the analyses over a drawn store ----
\* The analyses are functions of the stored records, so their claims are
\* checked from every store of a bounded family.  Session 1 holds up to
\* MaxPerSystem rows of system A followed by up to MaxPerSystem rows of
\* system B (each query filters on one system and keeps the row order, so the
\* interleaving of the two systems' rows is not observable).  Session 2 holds
\* one row that the session filter must skip.  Both are stores that uploads
\* reach from the empty database.
DrawnRows(ids, amounts, sys) ==
    UNION {[1..n -> [transaction_id : ids, system : {sys}, amount : amounts]] :
              n \in 0..MaxPerSystem}

OtherSessionRow == [transaction_id |-> 1, system |-> SYSTEM_A, amount |-> MaxAmount]

DrawnStore(ids, amounts) ==
    /\ hashOrder \in Permutations_(ids)
    /\ response = [op |-> "none", session_id |-> 0, status |-> 0, body |-> <<>>]
    /\ ApiOnly
    /\ sessions = {[id |-> 1, session_name |-> "n1"], [id |-> 2, session_name |-> "n2"]}
    /\ nextSessionId = 3
    /\ \E ua \in DrawnRows(ids, amounts, SYSTEM_A), ub \in DrawnRows(ids, amounts, SYSTEM_B) :
         transactions = <<NewRow(2, OtherSessionRow)>> \o NewRows(1, ua) \o NewRows(1, ub)

\* the session that holds the drawn rows and an id that no session has
AnalysisIds == {1, 3}

InitAnalysis == DrawnStore(Ids, Amounts)

NextAnalysis ==
    \/ \E sid \in AnalysisIds : Reconcile(sid)
    \/ \E sid \in AnalysisIds : Discrepancies(sid)
    \/ \E sid \in AnalysisIds : Summary(sid)
    \/ Restart

SpecAnalysis == InitAnalysis /\ [][NextAnalysis]_vars

\* reconcile_transactions selects Transaction.transaction_id only, so its
\* stores are drawn over one more identifier and a single amount
RecIds == 1..(NumIds + 1)

InitReconcile == DrawnStore(RecIds, {0})

NextReconcile ==
    \/ \E sid \in AnalysisIds : Reconcile(sid)
    \/ Restart

SpecReconcile == InitReconcile /\ [][NextReconcile]_vars

\* the identifier counts of get_reconciliation_summary follow from the
\* identifiers alone, so they are compared with reconcile_transactions over
\* the same stores
NextIdentifiers ==
    \/ \E sid \in AnalysisIds : Reconcile(sid)
    \/ \E sid \in AnalysisIds : Summary(sid)
    \/ Restart

SpecIdentifiers == InitReconcile /\ [][NextIdentifiers]_vars

\* ---- the MCP server ----
\* Every tool of mcp_server/server.py has the same body: the two
\* validations, the HTTP request, one audit record for the result, or one
\* audit record for the exception, which is raised again.  tool_call is the
\* latest invocation: its number n, the tool, its arguments, whether its
\* request was issued, where it stands ("sent": waiting for the API;
\* "returned"; "raised") and the exception it raised.  audit_log is the audit
\* file, one [tool, success] per line; the timestamp, the arguments and the
\* error text of a line are left out.  While a request is on its way the
\* response is Pending.  An invocation runs to its return or to its
\* exception, and the audit file can be written.
READ_TOOLS == {"health", "list_sessions", "get_session", "list_transactions",
               "reconcile", "get_discrepancies", "get_summary"}

WRITE_TOOLS == {"create_session", "bulk_upload_transactions", "delete_session",
                "clear_transactions"}

\* the tools that server.py registers
Tools == READ_TOOLS \cup {"create_session", "delete_session", "clear_transactions"}

MAX_SESSION_NAME_LENGTH == 255

MAX_TRANSACTIONS_PER_UPLOAD == 10000

\* the arguments the tools are invoked with: session ids that exist or not,
\* and a session name given with its length, at the limit and one above it
ToolArguments(tool) ==
    IF tool \in {"health", "list_sessions"} THEN {<<>>}
    ELSE IF tool = "create_session"
    THEN {[session_name |-> "n1", length |-> k] :
             k \in {MAX_SESSION_NAME_LENGTH, MAX_SESSION_NAME_LENGTH + 1}}
    ELSE {[session_id |-> i] : i \in {1, MaxSessions + 1}}

\* a policy that lets every tool through
validate_tool_allowed_any(tool_name) == "ok"

\* the exception that validate_tool_allowed raises, or "ok"
validate_tool_allowed(tool_name) ==
    IF tool_name \in WRITE_TOOLS /\ ~ALLOW_WRITE_TOOLS
    THEN "PermissionError" ELSE "ok"

\* the exception that validate_tool_inputs raises, or "ok"
validate_tool_inputs(tool_name, args) ==
    IF tool_name = "create_session" /\ args.length > MAX_SESSION_NAME_LENGTH
    THEN "ValueError"
    ELSE IF tool_name = "bulk_upload_transactions"
            /\ Len(args.transactions) > MAX_TRANSACTIONS_PER_UPLOAD
    THEN "ValueError"
    ELSE "ok"

Pending == [op |-> "pending", session_id |-> 0, status |-> 0, body |-> <<>>]

log_tool_call(tool_name, success) ==
    audit_log' = Append(audit_log, [tool |-> tool_name, success |-> success])

\* a tool is invoked: validate_tool_allowed, validate_tool_inputs, and
\* either the exception handler or the request goes out
InvokeTool(tool, args) ==
    /\ tool_call.phase # "sent"
    /\ Len(audit_log) < MaxCalls
    /\ LET allowed == validate_tool_allowed(tool)
           error   == IF allowed # "ok" THEN allowed
                      ELSE validate_tool_inputs(tool, args)
       IN  IF error # "ok"
           THEN /\ tool_call' = [n |-> tool_call.n + 1, tool |-> tool,
                                 arguments |-> args, requested |-> FALSE,
                                 phase |-> "raised", error |-> error]
                /\ log_tool_call(tool, FALSE)
                /\ UNCHANGED response
           ELSE /\ tool_call' = [n |-> tool_call.n + 1, tool |-> tool,
                                 arguments |-> args, requested |-> TRUE,
                                 phase |-> "sent", error |-> "none"]
                /\ response' = Pending
                /\ UNCHANGED audit_log
    /\ UNCHANGED <<sessions, nextSessionId, transactions, hashOrder, inflight,
                   ALLOW_WRITE_TOOLS, assistantVars>>

\* the API handles the request of the tool
ServeTool ==
    /\ tool_call.phase = "sent"
    /\ response = Pending
    /\ \/ tool_call.tool = "health" /\ health_check
       \/ tool_call.tool = "list_sessions" /\ get_all_sessions
       \/ tool_call.tool = "get_session" /\ GetSession(tool_call.arguments.session_id)
       \/ tool_call.tool = "list_transactions"
             /\ GetTransactionsBySession(tool_call.arguments.session_id)
       \/ tool_call.tool = "reconcile" /\ Reconcile(tool_call.arguments.session_id)
       \/ tool_call.tool = "get_discrepancies"
             /\ Discrepancies(tool_call.arguments.session_id)
       \/ tool_call.tool = "get_summary" /\ Summary(tool_call.arguments.session_id)
       \/ tool_call.tool = "create_session"
             /\ CreateSession(tool_call.arguments.session_name)
       \/ tool_call.tool = "delete_session"
             /\ DeleteSession(tool_call.arguments.session_id)
       \/ tool_call.tool = "clear_transactions"
             /\ ClearTransactions(tool_call.arguments.session_id)

\* _request returns the body of the response, or raise_for_status raises
\* for a status of 400 and above; the tool logs and returns or raises
ReturnResult ==
    /\ tool_call.phase = "sent"
    /\ response # Pending
    /\ IF response.status < 400
       THEN /\ tool_call' = [tool_call EXCEPT !.phase = "returned"]
            /\ log_tool_call(tool_call.tool, TRUE)
       ELSE /\ tool_call' = [tool_call EXCEPT !.phase = "raised",
                                              !.error = "HTTPStatusError"]
            /\ log_tool_call(tool_call.tool, FALSE)
    /\ UNCHANGED <<sessions, nextSessionId, transactions, hashOrder, response,
                   inflight, ALLOW_WRITE_TOOLS, assistantVars>>

\* the request fails in transit or times out, before or after the API has
\* handled it
RequestFails ==
    /\ tool_call.phase = "sent"
    /\ tool_call' = [tool_call EXCEPT !.phase = "raised", !.error = "RequestError"]
    /\ log_tool_call(tool_call.tool, FALSE)
    /\ UNCHANGED <<sessions, nextSessionId, transactions, hashOrder, response,
                   inflight, ALLOW_WRITE_TOOLS, assistantVars>>

\* the server starts with the flag as config.py is deployed, over an API
\* with no session or with one; no transaction can reach the API through
\* these tools, so the order of the analyses' sets is never seen
InitMcp ==
    /\ \E n \in 0..1 :
          /\ sessions = {[id |-> i, session_name |-> "n1"] : i \in 1..n}
          /\ nextSessionId = n + 1
    /\ transactions = <<>>
    /\ hashOrder = [i \in 1..NumIds |-> i]
    /\ response = [op |-> "none", session_id |-> 0, status |-> 0, body |-> <<>>]
    /\ inflight = [c \in Clients |-> Idle]
    /\ ALLOW_WRITE_TOOLS \in BOOLEAN
    /\ audit_log = <<>>
    /\ tool_call = [n |-> 0, tool |-> "none", arguments |-> <<>>,
                    requested |-> FALSE, phase |-> "none", error |-> "none"]
    /\ NoMessage

NextMcp ==
    \/ \E tool \in Tools : \E args \in ToolArguments(tool) : InvokeTool(tool, args)
    \/ ServeTool
    \/ ReturnResult
    \/ RequestFails

SpecMcp == InitMcp /\ [][NextMcp]_vars

\* ---- the assistant's intent router ----
\* A message is the sequence of its characters.  message is the text the
\* router was given and inferred what _infer_action returned for it: the
\* action and its parameters.
UpperCase == <<"A", "B", "C", "D", "E", "F", "G", "H", "I", "J", "K", "L", "M", "N", "O", "P", "Q", "R", "S", "T", "U", "V", "W", "X", "Y", "Z">>

LowerCase == <<"a", "b", "c", "d", "e", "f", "g", "h", "i", "j", "k", "l", "m", "n", "o", "p", "q", "r", "s", "t", "u", "v", "w", "x", "y", "z">>

Digits == <<"0", "1", "2", "3", "4", "5", "6", "7", "8", "9">>

\* \d of the regular expressions
DigitChars == {Digits[d] : d \in 1..10}

IsDigit(c) == c \in DigitChars

DigitValue(c) == (CHOOSE d \in 1..10 : Digits[d] = c) - 1

\* \w of the regular expressions
WordChars ==
    DigitChars \cup {LowerCase[i] : i \in 1..26} \cup {UpperCase[i] : i \in 1..26}
        \cup {"_"}

IsWordChar(c) == c \in WordChars

\* the lower-case letter of every capital
LowerOf ==
    [c \in {UpperCase[i] : i \in 1..26} |->
        LowerCase[CHOOSE k \in 1..26 : UpperCase[k] = c]]

\* str.lower
RECURSIVE lower(_)
lower(text) ==
    IF text = <<>> THEN <<>>
    ELSE <<IF Head(text) \in DOMAIN LowerOf THEN LowerOf[Head(text)] ELSE Head(text)>>
            \o lower(Tail(text))

\* str.strip: the text without its leading and trailing blanks
strip(text) ==
    LET inked == {i \in 1..Len(text) : text[i] # " "}
    IN  IF inked = {} THEN <<>>
        ELSE SubSeq(text, CHOOSE i \in inked : \A j \in inked : i <= j,
                          CHOOSE i \in inked : \A j \in inked : j <= i)

\* pattern in text
Contains(text, pattern) ==
    \E i \in 0..(Len(text) - Len(pattern)) :
        \A j \in 1..Len(pattern) : text[i + j] = pattern[j]

\* int() of the digits text[i..j]
RECURSIVE IntOf(_, _, _)
IntOf(text, i, j) ==
    IF j < i THEN 0 ELSE 10 * IntOf(text, i, j - 1) + DigitValue(text[j])

\* the end of the run of digits that starts at i
RunEnd(text, i) ==
    CHOOSE j \in i..Len(text) :
        /\ \A k \in i..j : IsDigit(text[k])
        /\ j = Len(text) \/ ~IsDigit(text[j + 1])

\* every run of digits, wherever it stands
extract_ints_anywhere(text) ==
    LET starts == {i \in 1..Len(text) :
                      IsDigit(text[i]) /\ (i = 1 \/ ~IsDigit(text[i - 1]))}
    IN  [k \in 1..Cardinality(starts) |->
            LET i == CHOOSE x \in starts : Cardinality({y \in starts : y < x}) = k - 1
            IN  IntOf(text, i, RunEnd(text, i))]

\* re.findall(r"\b\d+\b", text) as integers: the runs of digits that have
\* no word character before or after them, in the order of the text
extract_ints(text) ==
    LET starts == {i \in 1..Len(text) :
                      /\ IsDigit(text[i])
                      /\ i = 1 \/ ~IsWordChar(text[i - 1])
                      /\ RunEnd(text, i) = Len(text)
                            \/ ~IsWordChar(text[RunEnd(text, i) + 1])}
    IN  [k \in 1..Cardinality(starts) |->
            LET i == CHOOSE x \in starts : Cardinality({y \in starts : y < x}) = k - 1
            IN  IntOf(text, i, RunEnd(text, i))]

kw_health == <<"h", "e", "a", "l", "t", "h">>

kw_status == <<"s", "t", "a", "t", "u", "s">>

kw_list_sessions == <<"l", "i", "s", "t", " ", "s", "e", "s", "s", "i", "o", "n", "s">>

kw_sessions == <<"s", "e", "s", "s", "i", "o", "n", "s">>

kw_list == <<"l", "i", "s", "t">>

kw_show == <<"s", "h", "o", "w">>

kw_all == <<"a", "l", "l">>

kw_get_session == <<"g", "e", "t", " ", "s", "e", "s", "s", "i", "o", "n">>

kw_session_details == <<"s", "e", "s", "s", "i", "o", "n", " ", "d", "e", "t", "a", "i", "l", "s">>

kw_summary == <<"s", "u", "m", "m", "a", "r", "y">>

kw_discrepanc == <<"d", "i", "s", "c", "r", "e", "p", "a", "n", "c">>

kw_mismatch == <<"m", "i", "s", "m", "a", "t", "c", "h">>

kw_reconcil == <<"r", "e", "c", "o", "n", "c", "i", "l">>

kw_analyse == <<"a", "n", "a", "l", "y", "s", "e">>

kw_analyze == <<"a", "n", "a", "l", "y", "z", "e">>

kw_compare == <<"c", "o", "m", "p", "a", "r", "e">>

kw_match == <<"m", "a", "t", "c", "h">>

kw_transaction == <<"t", "r", "a", "n", "s", "a", "c", "t", "i", "o", "n">>

\* _infer_action
infer_action(text) ==
    LET msg  == lower(strip(text))
        ints == extract_ints(msg)
        WithSession(action) ==
            IF ints # <<>>
            THEN [action |-> action, params |-> [session_id |-> ints[1]]]
            ELSE [action |-> "help", params |-> [reason |-> "missing_session_id"]]
    IN  IF Contains(msg, kw_health) \/ Contains(msg, kw_status)
        THEN [action |-> "health", params |-> <<>>]
        ELSE IF \/ Contains(msg, kw_list_sessions)
                \/ /\ Contains(msg, kw_sessions)
                   /\ \/ Contains(msg, kw_list)
                      \/ Contains(msg, kw_show)
                      \/ Contains(msg, kw_all)
        THEN [action |-> "list_sessions", params |-> <<>>]
        ELSE IF Contains(msg, kw_get_session) \/ Contains(msg, kw_session_details)
        THEN WithSession("get_session")
        ELSE IF Contains(msg, kw_summary)
        THEN WithSession("get_summary")
        ELSE IF Contains(msg, kw_discrepanc) \/ Contains(msg, kw_mismatch)
        THEN WithSession("get_discrepancies")
        ELSE IF \/ Contains(msg, kw_reconcil)
                \/ Contains(msg, kw_analyse)
                \/ Contains(msg, kw_analyze)
                \/ Contains(msg, kw_compare)
                \/ Contains(msg, kw_match)
        THEN WithSession("reconcile")
        ELSE IF Contains(msg, kw_transaction)
        THEN WithSession("list_transactions")
        ELSE [action |-> "help", params |-> [reason |-> "unknown_intent"]]

\* the words the messages are made of: capitals, a word that holds another
\* ("call" holds "all", "sessions" after "get" holds "get session",
\* "mismatch" holds "match"), numbers, a number inside a word, and the empty
\* word, which leaves blanks at the ends or two blanks in a row
Vocabulary ==
    {<<"H", "e", "a", "l", "t", "h">>,
     <<"s", "t", "a", "t", "u", "s">>,
     <<"l", "i", "s", "t">>,
     <<"s", "h", "o", "w">>,
     <<"c", "a", "l", "l">>,
     <<"g", "e", "t">>,
     <<"s", "e", "s", "s", "i", "o", "n">>,
     <<"s", "e", "s", "s", "i", "o", "n", "s">>,
     <<"d", "e", "t", "a", "i", "l", "s">>,
     <<"S", "u", "m", "m", "a", "r", "y">>,
     <<"d", "i", "s", "c", "r", "e", "p", "a", "n", "c", "y">>,
     <<"m", "i", "s", "m", "a", "t", "c", "h">>,
     <<"r", "e", "c", "o", "n", "c", "i", "l", "e">>,
     <<"c", "o", "m", "p", "a", "r", "e">>,
     <<"m", "a", "t", "c", "h">>,
     <<"t", "r", "a", "n", "s", "a", "c", "t", "i", "o", "n", "s">>,
     <<"7">>,
     <<"4", "2">>,
     <<"t", "x", "n", "9">>,
     <<>>}

RECURSIVE Join(_)
Join(words) ==
    IF words = <<>> THEN <<>>
    ELSE IF Len(words) = 1 THEN words[1]
    ELSE words[1] \o <<" ">> \o Join(Tail(words))

Messages == {Join(words) : words \in UNION {[1..k -> Vocabulary] : k \in 0..MaxWords}}

InitAssistant ==
    /\ sessions = {}
    /\ nextSessionId = 1
    /\ transactions = <<>>
    /\ hashOrder = [i \in 1..NumIds |-> i]
    /\ response = [op |-> "none", session_id |-> 0, status |-> 0, body |-> <<>>]
    /\ inflight = [c \in Clients |-> Idle]
    /\ NoToolCalls
    /\ message \in Messages
    /\ inferred = [action |-> "none", params |-> <<>>]

\* the router is asked about the message
InferAction ==
    /\ inferred.action = "none"
    /\ inferred' = infer_action(message)
    /\ UNCHANGED <<sessions, nextSessionId, transactions, hashOrder, response,
                   inflight, mcpVars, message>>

NextAssistant == InferAction

SpecAssistant == InitAssistant /\ [][NextAssistant]_vars

\* ---- interleaved handlers next to whole requests ----
\* The requests of these specifications carry one kind of row per system:
\* identifier 1 with the greatest amount.
RaceInputs == {t \in TransactionCreate : t.transaction_id = 1 /\ t.amount = MaxAmount}

RaceBulkInputs(n) ==
    UNION {[1..k -> RaceInputs] : k \in {j \in 0..MaxBulk : n + j <= MaxTxns}}

\* two requests that create a session, one of them statement by statement
NextSessionRace ==
    \/ \E c \in Clients, name \in Names : CheckSessionName(c, name)
    \/ \E c \in Clients : InsertSession(c)
    \/ \E name \in Names : CreateSession(name)
    \/ \E sid \in RequestIds : DeleteSession(sid)
    \/ \E sid \in RequestIds : GetSession(sid)

SpecSessionRace == Init /\ [][NextSessionRace]_vars

\* uploads and deletes of sessions, statement by statement and whole
NextOrphans ==
    \/ \E name \in Names : CreateSession(name)
    \/ \E c \in Clients, sid \in RequestIds :
          CheckSession(c, "create_transaction", sid, <<OtherSessionRow>>)
    \/ \E c \in Clients, sid \in RequestIds, ts \in [1..MaxBulk -> {OtherSessionRow}] :
          CheckSession(c, "bulk_upload", sid, ts)
    \/ \E c \in Clients : InsertTransactions(c)
    \/ \E c \in Clients, sid \in RequestIds : FindSession(c, sid)
    \/ \E c \in Clients : LoadTransactions(c)
    \/ \E c \in Clients : CommitDelete(c)
    \/ \E sid \in RequestIds : CreateTransaction(sid, OtherSessionRow)
    \/ \E sid \in RequestIds : DeleteSession(sid)

SpecOrphans == Init /\ [][NextOrphans]_vars

\* a summary, query by query, of a session that is uploaded to and cleared
InitSummaryRace ==
    /\ sessions = {[id |-> 1, session_name |-> "n1"]}
    /\ nextSessionId = 2
    /\ transactions = <<>>
    /\ hashOrder \in Permutations_(Ids)
    /\ response = [op |-> "none", session_id |-> 0, status |-> 0, body |-> <<>>]
    /\ ApiOnly

NextSummaryRace ==
    \/ \E c \in Clients, sid \in AnalysisIds : FindSummarySession(c, sid)
    \/ \E c \in Clients : SummaryQuery(c)
    \/ \E t \in RaceInputs : CreateTransaction(1, t)
    \/ \E ts \in RaceBulkInputs(Len(transactions)) : BulkUpload(1, ts)
    \/ ClearTransactions(1)

SpecSummaryRace == InitSummaryRace /\ [][NextSummaryRace]_vars

\* ---- properties of reconcile_transactions ----
\* what the store holds, read off the table row by row
HasRow(sid, sys, k) ==
    \E i \in DOMAIN transactions :
        /\ transactions[i].session_id = sid
        /\ transactions[i].system = sys
        /\ transactions[i].transaction_id = k

StoredIds(sid, sys) == {k \in Ids \cup RecIds : HasRow(sid, sys, k)}

RowCount(sid, sys, k) ==
    Cardinality({i \in DOMAIN transactions :
        /\ transactions[i].session_id = sid
        /\ transactions[i].system = sys
        /\ transactions[i].transaction_id = k})

Reconciled == response.op = "reconcile" /\ response.status = 200

\* the table with the system tag of every row of session sid exchanged
SwapSystems(txns, sid) ==
    [i \in DOMAIN txns |->
        IF txns[i].session_id = sid
        THEN [txns[i] EXCEPT !.system = IF @ = SYSTEM_A THEN SYSTEM_B ELSE SYSTEM_A]
        ELSE txns[i]]

\* C1: in every result of reconcile_transactions the matched, only-in-A and
\* only-in-B lists are pairwise disjoint and together hold exactly the
\* identifiers stored for the session in system A or system B.
C1_Partition ==
    Reconciled =>
        LET sid == response.session_id
            M == Range(response.body.matched_transactions)
            A == Range(response.body.only_in_system_a)
            B == Range(response.body.only_in_system_b)
        IN  /\ M \cap A = {}
            /\ M \cap B = {}
            /\ A \cap B = {}
            /\ M \cup A \cup B = StoredIds(sid, SYSTEM_A) \cup StoredIds(sid, SYSTEM_B)

C1_Witness ==
    /\ Reconciled
    /\ response.body.matched_transactions # <<>>
    /\ response.body.only_in_system_a # <<>>
    /\ response.body.only_in_system_b # <<>>

\* C2: reconcile_transactions compares the identifiers of each system as
\* sets: matched is exactly the identifiers with a row in both systems,
\* only-in-A those with a row in A and none in B, only-in-B the converse;
\* the totals count distinct identifiers and every count is the length of
\* its list, however often an identifier is repeated.
C2_Deduplicated ==
    Reconciled =>
        LET sid == response.session_id
            b == response.body
            IA == StoredIds(sid, SYSTEM_A)
            IB == StoredIds(sid, SYSTEM_B)
        IN  /\ Range(b.matched_transactions) = {k \in IA : k \in IB}
            /\ Range(b.only_in_system_a) = {k \in IA : k \notin IB}
            /\ Range(b.only_in_system_b) = {k \in IB : k \notin IA}
            /\ b.total_system_a = Cardinality(IA)
            /\ b.total_system_b = Cardinality(IB)
            /\ b.matched_count = Len(b.matched_transactions)
            /\ b.only_in_system_a_count = Len(b.only_in_system_a)
            /\ b.only_in_system_b_count = Len(b.only_in_system_b)
            /\ b.matched_count = Cardinality({k \in IA : k \in IB})

C2_Witness ==
    /\ Reconciled
    /\ \E k \in RecIds :
         /\ RowCount(response.session_id, SYSTEM_A, k) = 2
         /\ HasRow(response.session_id, SYSTEM_B, k)
    /\ response.body.total_system_a = 1
    /\ response.body.matched_count = 1

\* C3: match_rate is 0 when neither system holds an identifier, and
\* otherwise 100 * |matched| / |union| rounded to two decimal places (the
\* nearest hundredth of a percent); it lies between 0 and 100.
C3_MatchRate ==
    Reconciled =>
        LET sid == response.session_id
            IA == StoredIds(sid, SYSTEM_A)
            IB == StoredIds(sid, SYSTEM_B)
            m == Cardinality(IA \cap IB)
            u == Cardinality(IA \cup IB)
            rate == response.body.match_rate
        IN  /\ u = 0 => rate = 0
            /\ u > 0 => 2 * Abs(rate * u - 10000 * m) <= u
            /\ 0 <= rate /\ rate <= 10000

C3_Witness ==
    /\ Reconciled
    /\ response.body.match_rate = 3333

\* C4: match_rate does not change when the two systems are exchanged, and
\* it is 0 for a session with no identifiers.
C4_RateSymmetric ==
    Reconciled =>
        LET sid == response.session_id
            swapped == reconcile_transactions(SwapSystems(transactions, sid), sid)
        IN  /\ response.body.match_rate = swapped.match_rate
            /\ (StoredIds(sid, SYSTEM_A) \cup StoredIds(sid, SYSTEM_B) = {}
                    => response.body.match_rate = 0)

C4_Witness ==
    /\ Reconciled
    /\ response.body.total_system_a = 1
    /\ response.body.total_system_b = 2
    /\ response.body.match_rate = 5000

\* C5: exchanging the system tags of all rows of a session exchanges the
\* only-in-A and only-in-B lists and leaves the matched list as it was.
C5_SwapSymmetric ==
    Reconciled =>
        LET sid == response.session_id
            swapped == reconcile_transactions(SwapSystems(transactions, sid), sid)
        IN  /\ response.body.only_in_system_a = swapped.only_in_system_b
            /\ response.body.only_in_system_b = swapped.only_in_system_a
            /\ response.body.matched_transactions = swapped.matched_transactions

C5_Witness ==
    /\ Reconciled
    /\ Len(response.body.only_in_system_a) = 2
    /\ Len(response.body.only_in_system_b) = 1
    /\ response.body.matched_transactions = <<>>

\* ---- properties of find_amount_discrepancies ----
Discrepant == response.op = "discrepancies" /\ response.status = 200

AnalysisOps == {"reconcile", "discrepancies", "summary"}

\* the amount of the last row of the table with this session, system and
\* identifier
LastAmount(sid, sys, k) ==
    LET I == {i \in DOMAIN transactions :
                /\ transactions[i].session_id = sid
                /\ transactions[i].system = sys
                /\ transactions[i].transaction_id = k}
    IN  transactions[CHOOSE i \in I : \A j \in I : j <= i].amount

FirstAmount(sid, sys, k) ==
    LET I == {i \in DOMAIN transactions :
                /\ transactions[i].session_id = sid
                /\ transactions[i].system = sys
                /\ transactions[i].transaction_id = k}
    IN  transactions[CHOOSE i \in I : \A j \in I : i <= j].amount

RECURSIVE ListedTotal(_)
ListedTotal(ds) == IF ds = <<>> THEN 0 ELSE ds[1].difference + ListedTotal(Tail(ds))

NonIncreasing(ds) ==
    \A i, j \in DOMAIN ds : i < j => ds[i].difference >= ds[j].difference

\* the table without the rows that a later row of the same session, system
\* and identifier follows
RECURSIVE KeepLastRows(_)
KeepLastRows(txns) ==
    IF txns = <<>> THEN <<>>
    ELSE IF \E j \in 2..Len(txns) :
                /\ txns[j].session_id = txns[1].session_id
                /\ txns[j].system = txns[1].system
                /\ txns[j].transaction_id = txns[1].transaction_id
         THEN KeepLastRows(Tail(txns))
         ELSE <<txns[1]>> \o KeepLastRows(Tail(txns))

\* C6: each analysis is deterministic: the same analysis of the same session,
\* requested again with no write in between, returns the same output, the
\* order of every list included.
C6_Deterministic ==
    [][(/\ response.op \in AnalysisOps
        /\ response'.op = response.op
        /\ response'.session_id = response.session_id
        /\ transactions' = transactions
        /\ sessions' = sessions)
       => response' = response]_vars

\* C7: find_amount_discrepancies returns a record for an identifier exactly
\* when the identifier is in both systems of the session and its amounts
\* differ (no tolerance); a record carries both amounts and their absolute
\* difference, which is positive, and transactions_with_discrepancies is the
\* number of records.  The amount of an identifier in a system is the amount
\* of its last row.
C7_Discrepancies ==
    Discrepant =>
        LET sid == response.session_id
            ds == response.body.discrepancies
            common == StoredIds(sid, SYSTEM_A) \cap StoredIds(sid, SYSTEM_B)
        IN  /\ \A k \in Ids :
                 (\E i \in DOMAIN ds : ds[i].transaction_id = k)
                    <=> (/\ k \in common
                         /\ LastAmount(sid, SYSTEM_A, k) # LastAmount(sid, SYSTEM_B, k))
            /\ \A i \in DOMAIN ds :
                 /\ ds[i].system_a_amount = LastAmount(sid, SYSTEM_A, ds[i].transaction_id)
                 /\ ds[i].system_b_amount = LastAmount(sid, SYSTEM_B, ds[i].transaction_id)
                 /\ ds[i].difference = Abs(ds[i].system_a_amount - ds[i].system_b_amount)
                 /\ ds[i].difference > 0
            /\ \A i, j \in DOMAIN ds :
                 i # j => ds[i].transaction_id # ds[j].transaction_id
            /\ response.body.transactions_with_discrepancies = Len(ds)

C7_Witness ==
    /\ Discrepant
    /\ Len(response.body.discrepancies) = 1
    /\ response.body.discrepancies[1].difference = 1
    /\ \E k \in Ids :
         /\ HasRow(1, SYSTEM_A, k)
         /\ HasRow(1, SYSTEM_B, k)
         /\ LastAmount(1, SYSTEM_A, k) = LastAmount(1, SYSTEM_B, k)

C9_TiesByIdentifier ==
    Discrepant =>
        \A i, j \in DOMAIN response.body.discrepancies :
            (/\ i < j
             /\ response.body.discrepancies[i].difference
                    = response.body.discrepancies[j].difference)
            => response.body.discrepancies[i].transaction_id
                    < response.body.discrepancies[j].transaction_id

\* C10: when an identifier has several rows in one system, the comparison
\* uses the amount of the last of them in the store's row order: the records
\* carry the last amounts, and the result holds the records, the count and
\* the total of the store without the earlier rows.
C10_LastRecordWins ==
    Discrepant =>
        LET sid == response.session_id
            ds == response.body.discrepancies
            kept == find_amount_discrepancies(KeepLastRows(transactions), sid)
        IN  /\ \A i \in DOMAIN ds :
                 /\ ds[i].system_a_amount = LastAmount(sid, SYSTEM_A, ds[i].transaction_id)
                 /\ ds[i].system_b_amount = LastAmount(sid, SYSTEM_B, ds[i].transaction_id)
            /\ Range(ds) = Range(kept.discrepancies)
            /\ Len(ds) = Len(kept.discrepancies)
            /\ response.body.transactions_with_discrepancies
                    = kept.transactions_with_discrepancies
            /\ response.body.total_discrepancy_amount = kept.total_discrepancy_amount

C10_Witness ==
    /\ Discrepant
    /\ \E k \in Ids :
         /\ RowCount(1, SYSTEM_A, k) = 2
         /\ HasRow(1, SYSTEM_B, k)
         /\ FirstAmount(1, SYSTEM_A, k) = LastAmount(1, SYSTEM_B, k)
         /\ LastAmount(1, SYSTEM_A, k) # LastAmount(1, SYSTEM_B, k)
         /\ \E i \in DOMAIN response.body.discrepancies :
              response.body.discrepancies[i].transaction_id = k

\* ---- properties of get_reconciliation_summary ----
Summarised == response.op = "summary" /\ response.status = 200

\* the number of rows of the table with this session and system
StoredCount(sid, sys) ==
    Cardinality({i \in DOMAIN transactions :
        transactions[i].session_id = sid /\ transactions[i].system = sys})

\* some identifier has more than one row in this system of the session
HasRepeat(sid, sys) == \E k \in Ids \cup RecIds : RowCount(sid, sys, k) > 1

\* C11: the summary counts stored rows per system, repeated identifiers
\* included, while reconcile_transactions counts distinct identifiers; for
\* the same store system_x_count >= total_system_x, with equality exactly
\* when no identifier is repeated within system x.
C11_RawAndDistinctCounts ==
    Summarised =>
        LET sid == response.session_id
            b == response.body
            r == reconcile_transactions(transactions, sid)
        IN  /\ b.system_a_count = StoredCount(sid, SYSTEM_A)
            /\ b.system_b_count = StoredCount(sid, SYSTEM_B)
            /\ r.total_system_a = Cardinality(StoredIds(sid, SYSTEM_A))
            /\ r.total_system_b = Cardinality(StoredIds(sid, SYSTEM_B))
            /\ b.system_a_count >= r.total_system_a
            /\ b.system_b_count >= r.total_system_b
            /\ (b.system_a_count = r.total_system_a) <=> ~HasRepeat(sid, SYSTEM_A)
            /\ (b.system_b_count = r.total_system_b) <=> ~HasRepeat(sid, SYSTEM_B)

C11_Witness ==
    /\ Summarised
    /\ response.body.system_a_count = 2
    /\ reconcile_transactions(transactions, response.session_id).total_system_a = 1
    /\ response.body.system_b_count = 2
    /\ reconcile_transactions(transactions, response.session_id).total_system_b = 2

\* C12: for the same store the summary agrees with reconcile_transactions:
\* the matched counts are equal, discrepancy_count is the number of unmatched
\* identifiers (only-in-A plus only-in-B), and the match rates are equal.
C12_SummaryAgrees ==
    Summarised =>
        LET b == response.body
            r == reconcile_transactions(transactions, response.session_id)
        IN  /\ b.matched_count = r.matched_count
            /\ b.discrepancy_count = r.only_in_system_a_count + r.only_in_system_b_count
            /\ b.discrepancy_count = Len(r.only_in_system_a) + Len(r.only_in_system_b)
            /\ b.match_rate = r.match_rate

C12_Witness ==
    /\ Summarised
    /\ response.body.matched_count = 1
    /\ response.body.discrepancy_count = 2
    /\ response.body.match_rate = 3333
    /\ reconcile_transactions(transactions, response.session_id).only_in_system_b_count = 1

\* the sum of the amounts of all rows of the table with this session and
\* system, row by row
RECURSIVE TotalUpTo(_, _, _)
TotalUpTo(sid, sys, n) ==
    IF n = 0 THEN 0
    ELSE TotalUpTo(sid, sys, n - 1)
         + (IF transactions[n].session_id = sid /\ transactions[n].system = sys
            THEN transactions[n].amount ELSE 0)

StoredTotal(sid, sys) == TotalUpTo(sid, sys, Len(transactions))

\* x is the multiple of Cent nearest to v
NearestCent(x, v) == x % Cent = 0 /\ 2 * Abs(x - v) < Cent

\* C13 as stated: the summary totals are the sums of the amounts of all rows
\* of each system, and the returned amount_difference is the absolute
\* difference of the two returned totals.
C13_ExactTotals ==
    Summarised =>
        LET sid == response.session_id
            b == response.body
        IN  /\ b.system_a_total_amount = StoredTotal(sid, SYSTEM_A)
            /\ b.system_b_total_amount = StoredTotal(sid, SYSTEM_B)
            /\ b.amount_difference =
                   Abs(b.system_a_total_amount - b.system_b_total_amount)

\* C13 amended: each summary total is the sum of the amounts of all rows of
\* that system (repeated identifiers included, 0 when there are none) rounded
\* to 2 decimal places, and amount_difference is the absolute difference of
\* the two unrounded sums rounded to 2 decimal places, so it can differ from
\* the difference of the returned totals by one cent.
C13_RoundedTotals ==
    Summarised =>
        LET sid == response.session_id
            b == response.body
            sum_a == StoredTotal(sid, SYSTEM_A)
            sum_b == StoredTotal(sid, SYSTEM_B)
        IN  /\ NearestCent(b.system_a_total_amount, sum_a)
            /\ NearestCent(b.system_b_total_amount, sum_b)
            /\ NearestCent(b.amount_difference, Abs(sum_a - sum_b))
            /\ StoredCount(sid, SYSTEM_A) = 0 => b.system_a_total_amount = 0
            /\ StoredCount(sid, SYSTEM_B) = 0 => b.system_b_total_amount = 0
            /\ Abs(b.amount_difference
                   - Abs(b.system_a_total_amount - b.system_b_total_amount)) <= Cent

C13_Witness ==
    /\ Summarised
    /\ HasRepeat(response.session_id, SYSTEM_A)
    /\ StoredTotal(response.session_id, SYSTEM_A) = 3
    /\ StoredTotal(response.session_id, SYSTEM_B) = 2
    /\ response.body.system_a_total_amount = Cent
    /\ response.body.system_b_total_amount = 0
    /\ response.body.amount_difference = 0

\* C14: every monetary field the analyses return is rounded to 2 decimal
\* places: the summary totals and amount_difference, the discrepancy total,
\* and the difference of every discrepancy record.
C14_AllRounded ==
    /\ Summarised =>
        /\ response.body.system_a_total_amount % Cent = 0
        /\ response.body.system_b_total_amount % Cent = 0
        /\ response.body.amount_difference % Cent = 0
    /\ Discrepant =>
        /\ response.body.total_discrepancy_amount % Cent = 0
        /\ \A i \in DOMAIN response.body.discrepancies :
               response.body.discrepancies[i].difference % Cent = 0

\* ---- properties of reconcile_transactions, continued ----
StrictlyAscending(s) == \A i, j \in DOMAIN s : i < j => s[i] < s[j]

\* C15: the three identifier lists of reconcile_transactions are strictly
\* ascending enumerations of their sets, whatever the order in which the rows
\* were inserted and whatever the iteration order of the sets.
C15_ListsAscending ==
    Reconciled =>
        LET sid == response.session_id
            b == response.body
            A == StoredIds(sid, SYSTEM_A)
            B == StoredIds(sid, SYSTEM_B)
        IN  /\ StrictlyAscending(b.matched_transactions)
            /\ StrictlyAscending(b.only_in_system_a)
            /\ StrictlyAscending(b.only_in_system_b)
            /\ Range(b.matched_transactions) = A \cap B
            /\ Range(b.only_in_system_a) = A \ B
            /\ Range(b.only_in_system_b) = B \ A

C15_Witness ==
    /\ Reconciled
    /\ Len(response.body.only_in_system_a) = 2
    /\ SetIter(Range(response.body.only_in_system_a)) # response.body.only_in_system_a
    /\ \E i, j \in DOMAIN transactions :
           /\ i < j
           /\ transactions[i].session_id = response.session_id
           /\ transactions[j].session_id = response.session_id
           /\ transactions[i].system = SYSTEM_A
           /\ transactions[j].system = SYSTEM_A
           /\ transactions[i].transaction_id > transactions[j].transaction_id

\* C16: for an existing session every analysis succeeds, and a system without
\* rows gives zero results: reconcile_transactions reports total 0 for the
\* empty system, no matched identifier and match_rate 0.0;
\* find_amount_discrepancies reports an empty list and total 0.0; the summary
\* reports count 0 and total 0.0 for the empty system.
C16_EmptySides ==
    LET sid == response.session_id
        b == response.body
        no_a == StoredCount(sid, SYSTEM_A) = 0
        no_b == StoredCount(sid, SYSTEM_B) = 0
    IN  /\ (response.op \in AnalysisOps /\ SessionExists(sid)) => response.status = 200
        /\ (Reconciled /\ no_a) => b.total_system_a = 0 /\ b.only_in_system_a = <<>>
        /\ (Reconciled /\ no_b) => b.total_system_b = 0 /\ b.only_in_system_b = <<>>
        /\ (Reconciled /\ (no_a \/ no_b)) =>
               /\ b.matched_count = 0
               /\ b.matched_transactions = <<>>
               /\ b.match_rate = 0
        /\ (Discrepant /\ (no_a \/ no_b)) =>
               /\ b.discrepancies = <<>>
               /\ b.transactions_with_discrepancies = 0
               /\ b.total_discrepancy_amount = 0
        /\ (Summarised /\ no_a) => b.system_a_count = 0 /\ b.system_a_total_amount = 0
        /\ (Summarised /\ no_b) => b.system_b_count = 0 /\ b.system_b_total_amount = 0
        /\ (Summarised /\ (no_a \/ no_b)) => b.matched_count = 0 /\ b.match_rate = 0

C16_Witness ==
    /\ Reconciled
    /\ StoredCount(response.session_id, SYSTEM_A) = 0
    /\ StoredCount(response.session_id, SYSTEM_B) = 0
    /\ response.body.match_rate = 0
    /\ response.body.total_system_a = 0
    /\ response.body.total_system_b = 0

\* ---- sessions and their analyses ----
\* C17: an analysis of a session id that no session has is answered 404 with
\* no result, whether the id was never given out or belonged to a session
\* that has been deleted; an analysis of an existing session is answered 200.
C17_NotFound ==
    response.op \in AnalysisOps =>
        /\ ~SessionExists(response.session_id) =>
               response.status = 404 /\ response.body = <<>>
        /\ SessionExists(response.session_id) => response.status = 200

\* an analysis of a deleted session, while another session holds rows
C17_Witness ==
    /\ response.op \in AnalysisOps
    /\ response.status = 404
    /\ response.session_id < nextSessionId
    /\ transactions # <<>>

\* C18: a step that answers an analysis leaves the sessions and the
\* transactions as they were.
C18_ReadOnly ==
    [][response'.op \in AnalysisOps =>
          /\ sessions' = sessions
          /\ transactions' = transactions
          /\ nextSessionId' = nextSessionId]_vars

C18_Witness ==
    /\ response.op \in AnalysisOps
    /\ response.status = 200
    /\ Len(SessionRows(transactions, response.session_id)) = 2

SessionWrites ==
    {"create_transaction", "bulk_upload", "clear_transactions", "delete_session"}

SessionResults(txns, sid) ==
    <<reconcile_transactions(txns, sid),
      find_amount_discrepancies(txns, sid),
      get_reconciliation_summary(txns, sid)>>

\* C19: a request that creates, bulk-uploads, clears or deletes in a session
\* t and changes the store leaves every other existing session s in place,
\* leaves every query the analyses of s make (its rows of system A and of
\* system B) with the same answer, and so leaves the three results for s the
\* same, also for an analysis of s whose queries fall before and after the
\* request.
C19_SessionsIndependent ==
    [][(/\ response'.op \in SessionWrites
        /\ (transactions' # transactions \/ sessions' # sessions))
       => \A s \in SessionIds :
            (SessionExists(s) /\ response'.session_id # s)
            => /\ \E x \in sessions' : x.id = s
               /\ SystemRows(transactions', s, SYSTEM_A)
                      = SystemRows(transactions, s, SYSTEM_A)
               /\ SystemRows(transactions', s, SYSTEM_B)
                      = SystemRows(transactions, s, SYSTEM_B)
               /\ SessionResults(transactions', s) = SessionResults(transactions, s)]_vars

\* the rows of one session cleared while another session holds a row
C19_Witness ==
    /\ response.op = "clear_transactions"
    /\ response.status = 200
    /\ response.body.deleted_count >= 1
    /\ \E s \in SessionIds :
           /\ s # response.session_id
           /\ SessionExists(s)
           /\ SessionRows(transactions, s) # <<>>

\* C20: when both systems hold the same non-empty set of identifiers the
\* only-in counts are 0 and match_rate is 100.0; when the two sets are
\* disjoint matched_count and match_rate are 0 and every identifier is listed
\* as only in its own system.
C20_EqualAndDisjoint ==
    Reconciled =>
        LET sid == response.session_id
            b == response.body
            A == StoredIds(sid, SYSTEM_A)
            B == StoredIds(sid, SYSTEM_B)
        IN  /\ (A = B /\ A # {}) =>
                   /\ b.only_in_system_a_count = 0
                   /\ b.only_in_system_b_count = 0
                   /\ b.only_in_system_a = <<>>
                   /\ b.only_in_system_b = <<>>
                   /\ b.match_rate = 10000
            /\ (A \cap B = {}) =>
                   /\ b.matched_count = 0
                   /\ b.matched_transactions = <<>>
                   /\ b.match_rate = 0
                   /\ Range(b.only_in_system_a) = A
                   /\ Range(b.only_in_system_b) = B
                   /\ b.only_in_system_a_count = Cardinality(A)
                   /\ b.only_in_system_b_count = Cardinality(B)

C20_Witness ==
    /\ Reconciled
    /\ StoredIds(response.session_id, SYSTEM_A) = StoredIds(response.session_id, SYSTEM_B)
    /\ Cardinality(StoredIds(response.session_id, SYSTEM_A)) = 2
    /\ response.body.match_rate = 10000
    /\ response.body.only_in_system_a_count = 0

\* C25: in every summary system_a_count + system_b_count is at least
\* 2 * matched_count + discrepancy_count, and the two are equal exactly when
\* no identifier is repeated within one system of the session.
C25_CountsArithmetic ==
    Summarised =>
        LET sid == response.session_id
            b == response.body
            rows == b.system_a_count + b.system_b_count
            identifiers == 2 * b.matched_count + b.discrepancy_count
        IN  /\ rows >= identifiers
            /\ (rows = identifiers)
                   <=> (~HasRepeat(sid, SYSTEM_A) /\ ~HasRepeat(sid, SYSTEM_B))

C25_Witness ==
    /\ Summarised
    /\ HasRepeat(response.session_id, SYSTEM_A)
    /\ ~HasRepeat(response.session_id, SYSTEM_B)
    /\ response.body.matched_count = 1
    /\ response.body.discrepancy_count = 1
    /\ response.body.system_a_count + response.body.system_b_count = 4

\* C26: an analysis result is computed from the records the store holds for
\* the session when the request is answered, whatever uploads and clears
\* came before: the reconcile lists are the set operations on the stored
\* identifiers, the discrepancy records are the common identifiers whose last
\* stored amounts differ, and the summary counts and totals are those of the
\* stored rows.
C26_CurrentStoreOnly ==
    LET sid == response.session_id
        b == response.body
        A == StoredIds(sid, SYSTEM_A)
        B == StoredIds(sid, SYSTEM_B)
    IN  /\ Reconciled =>
            /\ Range(b.matched_transactions) = A \cap B
            /\ Range(b.only_in_system_a) = A \ B
            /\ Range(b.only_in_system_b) = B \ A
            /\ b.total_system_a = Cardinality(A)
            /\ b.total_system_b = Cardinality(B)
        /\ Discrepant =>
            /\ {b.discrepancies[i].transaction_id : i \in DOMAIN b.discrepancies}
                   = {k \in A \cap B :
                          LastAmount(sid, SYSTEM_A, k) # LastAmount(sid, SYSTEM_B, k)}
            /\ b.transactions_with_discrepancies = Len(b.discrepancies)
        /\ Summarised =>
            /\ b.system_a_count = StoredCount(sid, SYSTEM_A)
            /\ b.system_b_count = StoredCount(sid, SYSTEM_B)
            /\ b.matched_count = Cardinality(A \cap B)
            /\ NearestCent(b.system_a_total_amount, StoredTotal(sid, SYSTEM_A))
            /\ NearestCent(b.system_b_total_amount, StoredTotal(sid, SYSTEM_B))

\* identifier 1 was stored for system A first and for system B afterwards,
\* and the reconcile that follows lists it as matched
C26_Witness ==
    /\ Reconciled
    /\ response.body.matched_transactions = <<1>>
    /\ response.body.only_in_system_a = <<>>
    /\ LET rows == SessionRows(transactions, response.session_id)
       IN  /\ Len(rows) = 2
           /\ rows[1].system = SYSTEM_A /\ rows[1].transaction_id = 1
           /\ rows[2].system = SYSTEM_B /\ rows[2].transaction_id = 1

\* ---- the session life cycle and the listings ----
ReadOps ==
    {"get_session", "get_transactions_by_session", "get_transactions_by_system"}
        \cup AnalysisOps

\* the rows of the table that do not belong to session sid
OtherRows(txns, sid) == SelectSeq(txns, LAMBDA t : t.session_id # sid)

\* a read of an id that no session has is answered 404 with no result
ReadOfMissingSession ==
    (response.op \in ReadOps /\ ~SessionExists(response.session_id))
        => (response.status = 404 /\ response.body = <<>>)

\* C22: a delete of an existing session answers 200 and removes the session
\* and all of its transactions and nothing else; a delete of an id that no
\* session has answers 404 and changes nothing; and every read (get, listing
\* or analysis) of an id that no session has, a deleted one included, is
\* answered 404.
C22_DeleteSession ==
    [][/\ response'.op = "delete_session" =>
            LET sid == response'.session_id
            IN  IF SessionExists(sid)
                THEN /\ response'.status = 200
                     /\ sessions' = {x \in sessions : x.id # sid}
                     /\ transactions' = OtherRows(transactions, sid)
                     /\ SessionRows(transactions', sid) = <<>>
                ELSE /\ response'.status = 404
                     /\ sessions' = sessions
                     /\ transactions' = transactions
       /\ ReadOfMissingSession']_vars

\* a listing of a deleted session is answered 404 while the other session
\* keeps its row
C22_Witness ==
    /\ response.op = "get_transactions_by_session"
    /\ response.status = 404
    /\ response.session_id < nextSessionId
    /\ transactions # <<>>

\* C23: a clear of an existing session deletes exactly the rows of that
\* session, reports their number as deleted_count, and leaves the sessions
\* and the rows of the other sessions in place; after it the listing of the
\* session is empty and its reconcile is that of a session without data.
C23_ClearTransactions ==
    [][(response'.op = "clear_transactions" /\ SessionExists(response'.session_id)) =>
          LET sid == response'.session_id
          IN  /\ response'.status = 200
              /\ response'.body.deleted_count = StoredCount(sid, SYSTEM_A)
                                                + StoredCount(sid, SYSTEM_B)
              /\ Len(transactions') = Len(transactions) - response'.body.deleted_count
              /\ sessions' = sessions
              /\ OtherRows(transactions', sid) = OtherRows(transactions, sid)
              /\ SessionRows(transactions', sid) = <<>>
              /\ SystemRows(transactions', sid, SYSTEM_A) = <<>>
              /\ SystemRows(transactions', sid, SYSTEM_B) = <<>>
              /\ reconcile_transactions(transactions', sid)
                     = reconcile_transactions(<<>>, sid)]_vars

\* one row cleared from a session that still exists, the other session's row
\* kept
C23_Witness ==
    /\ response.op = "clear_transactions"
    /\ response.status = 200
    /\ response.body.deleted_count = 1
    /\ SessionExists(response.session_id)
    /\ SessionRows(transactions, response.session_id) = <<>>
    /\ Len(transactions) = 1

\* the answer of a listing by system holds exactly the stored rows of the
\* session with that system tag, and the answer of a listing by session the
\* rows of both
ListingsExact ==
    LET sid == response.session_id
    IN  /\ (response.op = "get_transactions_by_system" /\ response.status = 200) =>
            LET sys == response.body.system
                rows == response.body.transactions
            IN  /\ Len(rows) = StoredCount(sid, sys)
                /\ \A j \in DOMAIN rows :
                       rows[j].session_id = sid /\ rows[j].system = sys
                /\ \A i \in DOMAIN transactions :
                       (transactions[i].session_id = sid /\ transactions[i].system = sys)
                           => \E j \in DOMAIN rows : rows[j] = transactions[i]
        /\ (response.op = "get_transactions_by_session" /\ response.status = 200) =>
            LET rows == response.body
                in_a == {j \in DOMAIN rows : rows[j].system = SYSTEM_A}
                in_b == {j \in DOMAIN rows : rows[j].system = SYSTEM_B}
            IN  /\ in_a \cap in_b = {}
                /\ in_a \cup in_b = DOMAIN rows
                /\ Cardinality(in_a) = StoredCount(sid, SYSTEM_A)
                /\ Cardinality(in_b) = StoredCount(sid, SYSTEM_B)
                /\ \A j \in DOMAIN rows : rows[j].session_id = sid
                /\ SelectSeq(rows, LAMBDA t : t.system = SYSTEM_A)
                       = SystemRows(transactions, sid, SYSTEM_A)
                /\ SelectSeq(rows, LAMBDA t : t.system = SYSTEM_B)
                       = SystemRows(transactions, sid, SYSTEM_B)

\* C24: after any uploads a listing by system returns exactly the stored
\* rows of the session with that tag, so the two listings are disjoint and
\* together make up the listing by session; and a bulk upload that answers
\* count n has added exactly n rows, all to the session named in the request.
C24_ListingsAndBulk ==
    [][/\ (response'.op = "bulk_upload" /\ response'.status = 201) =>
            LET sid == response'.session_id
                n == response'.body.count
            IN  /\ Len(transactions') = Len(transactions) + n
                /\ Len(SessionRows(transactions', sid))
                       = Len(SessionRows(transactions, sid)) + n
                /\ OtherRows(transactions', sid) = OtherRows(transactions, sid)
                /\ sessions' = sessions
       /\ ListingsExact']_vars

\* a listing of one system of a session that holds a row of each system
C24_Witness ==
    /\ response.op = "get_transactions_by_system"
    /\ response.status = 200
    /\ Len(response.body.transactions) = 1
    /\ StoredCount(response.session_id, SYSTEM_A) = 1
    /\ StoredCount(response.session_id, SYSTEM_B) = 1

\* ---- requests that interleave ----
NameTaken(name) == \E s \in sessions : s.session_name = name

NamesUnique ==
    \A s1 \in sessions, s2 \in sessions :
        s1.session_name = s2.session_name => s1.id = s2.id

\* C21: no two sessions ever have the same name.  A request to create a
\* session that reaches its insert while a session of that name exists is
\* answered 400 and leaves the sessions as they were, whether the name was
\* there at the check or was committed by another request between the check
\* and the insert; a request passes the check only with a free name; every
\* 400 of the endpoint leaves the sessions unchanged and every 201 adds
\* exactly one session, whose name no session had.
C21_UniqueNames ==
    [][/\ NamesUnique'
       /\ \A c \in Clients :
            (inflight[c].op = "create_session" /\ inflight'[c] = Idle) =>
                IF NameTaken(inflight[c].session_name)
                THEN response'.status = 400 /\ sessions' = sessions
                ELSE /\ response'.status = 201
                     /\ sessions' = sessions \cup
                           {[id |-> nextSessionId,
                             session_name |-> inflight[c].session_name]}
       /\ \A c \in Clients :
            (inflight[c] = Idle /\ inflight'[c].op = "create_session") =>
                ~NameTaken(inflight'[c].session_name) /\ sessions' = sessions
       /\ (response'.op = "create_session" /\ response'.status = 400) =>
                sessions' = sessions
       /\ (response'.op = "create_session" /\ response'.status = 201
              /\ response' # response) =>
                \E s \in sessions' :
                    /\ ~NameTaken(s.session_name)
                    /\ sessions' = sessions \cup {s}
                    /\ s \notin sessions
      ]_vars

\* a request passed the check, another request committed the name, and the
\* insert of the first was refused
C21_Witness ==
    /\ response = SessionRefused("Failed to create session")
    /\ sessions # {}

Uploads == {"create_transaction", "bulk_upload"}

NoOrphans ==
    \A i \in 1..Len(transactions) : SessionExists(transactions[i].session_id)

\* C28: every stored transaction belongs to a session that exists.  An
\* upload (one row or bulk) is answered 404 only for a session that does not
\* exist, and a 404 or 400 of an upload stores nothing; rows are stored only
\* for a session that exists when they are inserted; an upload that passed
\* its check and reaches its insert after the session was deleted is refused
\* and stores nothing; a successful delete of a session leaves neither the
\* session nor a row of it, and keeps every other row.
C28_NoOrphans ==
    [][/\ NoOrphans'
       /\ (response'.op \in Uploads /\ response'.status \in {400, 404}) =>
              transactions' = transactions
       /\ (response'.op \in Uploads /\ response'.status = 404
              /\ response' # response) =>
              ~SessionExists(response'.session_id)
       /\ (response'.op \in Uploads /\ transactions' # transactions) =>
              /\ SessionExists(response'.session_id)
              /\ response'.status = 201
              /\ OtherRows(transactions', response'.session_id)
                    = OtherRows(transactions, response'.session_id)
       /\ \A c \in Clients :
            (inflight[c] = Idle /\ inflight'[c].op \in Uploads) =>
                SessionExists(inflight'[c].session_id) /\ transactions' = transactions
       /\ \A c \in Clients :
            (inflight[c].op \in Uploads /\ inflight'[c] = Idle) =>
                IF SessionExists(inflight[c].session_id)
                THEN /\ response'.status = 201
                     /\ transactions' = transactions
                           \o NewRows(inflight[c].session_id, inflight[c].rows)
                ELSE /\ response'.status = 400
                     /\ transactions' = transactions
       /\ (response'.op = "delete_session" /\ response'.status = 200
              /\ response' # response) =>
              /\ \A s \in sessions' : s.id # response'.session_id
              /\ SessionRows(transactions', response'.session_id) = <<>>
              /\ OtherRows(transactions', response'.session_id)
                    = OtherRows(transactions, response'.session_id)
      ]_vars

\* an upload passed its check, the session was deleted, and the insert was
\* refused: the session of the answer is gone and has no row
C28_Witness ==
    /\ response.op \in Uploads
    /\ response.status = 400
    /\ ~SessionExists(response.session_id)
    /\ response.session_id < nextSessionId

\* the tables a session of the interleaved summary can hold at one moment
Snapshots(sid) ==
    {NewRows(sid, ts) : ts \in UNION {[1..k -> RaceInputs] : k \in 0..MaxTxns}}

\* C27: every summary that is answered is the summary of one table, the
\* session's rows as they were at some single moment (so that the matched
\* identifiers and those of one system alone are at most the rows counted
\* for that system, and the totals are the sums of the rows counted), also
\* when uploads to and clears of the session are committed between the
\* summary's queries.
C27_SingleSnapshot ==
    (response.op = "summary" /\ response.status = 200) =>
        /\ response.body.matched_count <= response.body.system_a_count
        /\ response.body.matched_count <= response.body.system_b_count
        /\ \E txns \in Snapshots(response.session_id) :
              response.body = get_reconciliation_summary(txns, response.session_id)

\* ---- the MCP tools ----
ApiState == <<sessions, nextSessionId, transactions>>

Invoked == tool_call'.n # tool_call.n

\* C29: a tool issues its request only after both validations passed.  A
\* write tool invoked while ALLOW_WRITE_TOOLS is false raises
\* PermissionError, issues no request, leaves the API as it was and gets an
\* audit record with success false; a read tool issues its request whatever
\* the flag is.  The audit log has one record for every invocation that has
\* ended and none for the one under way; a record is appended only when an
\* invocation ends, names its tool, and has success true exactly when the
\* tool returned a result.  The API changes only while a tool's request is
\* out.
C29_ValidatedAndAudited ==
    [][/\ tool_call'.requested =>
              /\ validate_tool_allowed(tool_call'.tool) = "ok"
              /\ validate_tool_inputs(tool_call'.tool, tool_call'.arguments) = "ok"
       /\ (Invoked /\ tool_call'.tool \in WRITE_TOOLS /\ ~ALLOW_WRITE_TOOLS) =>
              /\ tool_call'.phase = "raised"
              /\ tool_call'.error = "PermissionError"
              /\ ~tool_call'.requested
              /\ ApiState' = ApiState /\ response' = response
              /\ audit_log' = Append(audit_log, [tool |-> tool_call'.tool,
                                                 success |-> FALSE])
       /\ (Invoked /\ tool_call'.tool \in READ_TOOLS) =>
              /\ tool_call'.requested
              /\ tool_call'.phase = "sent"
              /\ response' = Pending
       /\ Len(audit_log') = tool_call'.n - (IF tool_call'.phase = "sent" THEN 1 ELSE 0)
       /\ audit_log' # audit_log =>
              /\ tool_call'.phase \in {"returned", "raised"}
              /\ audit_log' = Append(audit_log,
                                     [tool |-> tool_call'.tool,
                                      success |-> tool_call'.phase = "returned"])
       /\ tool_call'.phase = "returned" =>
              tool_call'.requested /\ response'.status \in 200..399
       /\ ApiState' # ApiState =>
              tool_call.phase = "sent" /\ tool_call.tool \in WRITE_TOOLS
                 /\ ALLOW_WRITE_TOOLS
      ]_vars

\* with the write tools disabled, a read tool returned its result and then
\* a write tool was refused
C29_Witness ==
    /\ ~ALLOW_WRITE_TOOLS
    /\ Len(audit_log) = 2
    /\ audit_log[1].tool \in READ_TOOLS /\ audit_log[1].success
    /\ audit_log[2].tool \in WRITE_TOOLS /\ ~audit_log[2].success
    /\ tool_call.error = "PermissionError"

\* ---- the assistant's intent router ----
Routed == inferred.action # "none"

\* the patterns of the seven intents, in the order of their precedence,
\* looked for in text
Pattern(text, k) ==
    LET Has(p) == Contains(text, p)
    IN  CASE k = 1 -> Has(kw_health) \/ Has(kw_status)
          [] k = 2 -> \/ Has(kw_list_sessions)
                      \/ Has(kw_sessions) /\ (Has(kw_list) \/ Has(kw_show) \/ Has(kw_all))
          [] k = 3 -> Has(kw_get_session) \/ Has(kw_session_details)
          [] k = 4 -> Has(kw_summary)
          [] k = 5 -> Has(kw_discrepanc) \/ Has(kw_mismatch)
          [] k = 6 -> \/ Has(kw_reconcil) \/ Has(kw_analyse) \/ Has(kw_analyze)
                      \/ Has(kw_compare) \/ Has(kw_match)
          [] k = 7 -> Has(kw_transaction)

Intents == <<"health", "list_sessions", "get_session", "get_summary",
             "get_discrepancies", "reconcile", "list_transactions">>

\* text[i..j] is an integer of the text: digits, with no word character
\* next to them
Standalone(text, i, j) ==
    /\ \A k \in i..j : IsDigit(text[k])
    /\ i = 1 \/ ~IsWordChar(text[i - 1])
    /\ j = Len(text) \/ ~IsWordChar(text[j + 1])

HasInteger(text) ==
    \E i \in 1..Len(text) : \E j \in i..Len(text) : Standalone(text, i, j)

\* n is the first integer of the text
FirstInteger(text, n) ==
    \E i \in 1..Len(text) : \E j \in i..Len(text) :
        /\ Standalone(text, i, j)
        /\ n = IntOf(text, i, j)
        /\ \A i2 \in 1..(i - 1) : \A j2 \in i2..Len(text) : ~Standalone(text, i2, j2)

\* C30: the router answers every message with one of the seven intents or
\* with help.  The intent is that of the first pattern, in the order
\* health/status, list sessions, get session, summary, discrepancies/mismatch,
\* reconcile/analyse/compare/match, transactions, that the message matches.
\* When that intent is about one session the answer carries the first
\* integer of the message as session_id, and is help with reason
\* missing_session_id when the message has no integer.  A message that
\* contains "mismatch" is never answered with reconcile.  A message that
\* matches no pattern is answered with help, reason unknown_intent.
C30_IntentRouter ==
    Routed =>
        LET msg      == lower(strip(message))
            matching == {k \in 1..7 : Pattern(msg, k)}
        IN  /\ inferred.action \in Range(Intents) \cup {"help"}
            /\ \A k \in matching :
                  (\A h \in matching : k <= h) =>
                      IF k <= 2
                      THEN inferred = [action |-> Intents[k], params |-> <<>>]
                      ELSE IF HasInteger(message)
                      THEN /\ inferred.action = Intents[k]
                           /\ FirstInteger(message, inferred.params.session_id)
                      ELSE inferred = [action |-> "help",
                                       params |-> [reason |-> "missing_session_id"]]
            /\ matching = {} =>
                  inferred = [action |-> "help", params |-> [reason |-> "unknown_intent"]]
            /\ inferred.action \in {Intents[k] : k \in 3..7} =>
                  FirstInteger(message, inferred.params.session_id)
            /\ Contains(msg, kw_mismatch) => inferred.action # "reconcile"

\* a message with "mismatch", which holds "match", with a number inside a
\* word and an integer after it, was routed to the discrepancies of the
\* session of that integer
C30_Witness ==
    /\ Routed
    /\ Contains(message, kw_mismatch)
    /\ Contains(message, <<"t", "x", "n", "9">>)
    /\ inferred = [action |-> "get_discrepancies", params |-> [session_id |-> 42]]

====
